---------------------------- MODULE Spec2Model ----------------------------
(* cachejs: the caching policy engine of src/src/cache.js.                 *)
(*                                                                         *)
(* One Cache instance over a source tree and a cache tree.  Every action   *)
(* is one run-to-completion stretch of JavaScript: from the delivery of    *)
(* an IO callback, a timer or a call of the VFS adapter up to the next     *)
(* await of an IO call.  Promise continuations (microtasks) run inside     *)
(* the stretch that queued them.                                           *)
EXTENDS Integers, Sequences, FiniteSets, TLC

\* ------------------------------------------------------------------ bounds
MaxOpens   == 1   \* on_open calls in one behaviour
MaxCleans  == 1   \* clean() calls in one behaviour
MaxLocates == 1   \* locate() calls made by the VFS adapter (getattr/open redirect)
MaxFails   == 1   \* IO calls that fail in one behaviour
MaxFd      == 1   \* file descriptors handed out by the adapter
MaxRead    == 6   \* cap on the cumulative bytes_read of one record
MaxDir     == 4   \* entries of the directory given to getSiblings
MaxSib     == 2   \* largest preloadSiblings given to getSiblings
\* lib/worker.js: how many work items are pushed
MaxPush    == 3
WorkIds    == 1..MaxPush
\* lib/copyfile.js: how many calls of copyFile are made
MaxCopy    == 2
\* lib/removefile.js: how many calls of removeFile are made
MaxRemove  == 2

\* ------------------------------------------------------- program constants
mruSize         == 2    \* test 'locate more files than fit in the cache'
preloadSiblings == 1    \* test 'clean all files'
FileSize        == 10   \* bytes of 'data567890', every file of the fixture
Depth           == 2    \* directory levels of DIR = /foo/bar below a root

\* ----------------------------------------------------------------- fixture
\* the files makeFS creates in sourceDir + DIR
FixtureFiles == <<"file1.flac", "file2.claf", "file3.flac", "file4.flac",
                  "file5.flac">>
DirNames == {FixtureFiles[k] : k \in 1..Len(FixtureFiles)}
\* readdir of sourceDir + DIR: the first three of them
SourceListing == SubSeq(FixtureFiles, 1, 3)
Names   == {SourceListing[k] : k \in 1..Len(SourceListing)}
NoPath  == "-"
\* preloadFilter.test(basename): ^.*\.flac$
Flac == {"file1.flac", "file3.flac", "file4.flac", "file5.flac"}
FlacNames == Names \cap Flac
preloadFilterAll(f) == TRUE
preloadFilter(f) == f \in Flac
\* the clean filters a caller may pass: /^.*1\.flac$/ and /$./ (matches nothing)
CleanFilters == {"1.flac", "none"}
cleanIgnore(filter, f) == filter = "1.flac" /\ f = "file1.flac"
\* the source files whose atime is older than now - cleanAfter
SourceAtimeOld == {"file3.flac"}
\* String order of the names (Array.prototype.sort compares code units)
Rank(f) == CHOOSE k \in 1..Len(FixtureFiles) : FixtureFiles[k] = f

Fds     == 1..MaxFd
Rids    == 1..MaxOpens
MaxItems == 2 * MaxOpens + MaxCleans
ItemIds == 1..MaxItems
Callers == {<<"vfs", 0>>} \cup {<<"fd", f>> : f \in Fds}
                          \cup {<<"item", i>> : i \in ItemIds}

VARIABLES
  cacheFiles,   \* names with a regular file at cacheDir + DIR + name
  cacheDirs,    \* how many of the Depth directory levels exist below cacheDir
  atimeOld,     \* cached names whose atime is older than now - cleanAfter
  mruFiles,     \* the MRU Map, in insertion order: records [path, cached, fullpath, cacheable]
  openFiles,    \* the Map fd -> record (0: no entry)
  recs,         \* the record objects: read, size, and the TimedTrigger
  fdState,      \* the adapter's view of each fd: closed, opening, open, and its path
  lock,         \* the PLock: held, and the awaiters in arrival order
  items,        \* the work items handed to execute()
  loc,          \* per caller, the locate() call it is suspended in
  events,       \* everything emitted so far, in order
  ret,          \* the PathInfo the last locate() of the last step returned
  nextItem, nextRid,
  preloadRead,  \* the percentage option
  observed,     \* the event names an observer is attached to
  siblingsCall, \* a call of getSiblings on its own: arguments and result
  sourceFiles,  \* names with a regular file at sourceDir + DIR + name
  partial,      \* names whose cache file exists while fs.copyFile is still writing it
  stamped,      \* cached names whose atime and mtime were set from the source file
  worker,       \* lib/worker.js: the Worker object and its work items
  copyJob,      \* lib/copyfile.js: one copyFile(src, dst) call and the files it touches
  removeJob,    \* lib/removefile.js: one removeFile(path, {top}) call and the tree
  budget        \* what the environment may still do

vars == <<cacheFiles, cacheDirs, atimeOld, mruFiles, openFiles, recs, fdState,
          lock, items, loc, events, ret, nextItem, nextRid, preloadRead,
          observed, siblingsCall, sourceFiles, partial, stamped, worker, copyJob, removeJob, budget>>

\* ------------------------------------------------------------------ values
NoWorker    == [queue |-> <<>>, working |-> FALSE, current |-> 0,
                idleFn |-> FALSE, idleTimer |-> FALSE,
                st |-> [i \in WorkIds |-> "none"], next |-> 1,
                stopped |-> "none", stopOn |-> 0, dropped |-> {}]
NoCopyJob   == [pc |-> "none"]
NoRemoveJob == [pc |-> "none"]
\* the modules of lib/ are not in use
LibIdle == worker = NoWorker /\ copyJob = NoCopyJob /\ removeJob = NoRemoveJob
NoInfo  == [path |-> NoPath, cached |-> FALSE, fullpath |-> "-",
            cacheable |-> FALSE]
NoCall  == [listing |-> <<>>, path |-> NoPath, n |-> 0, out |-> <<>>,
            done |-> TRUE]
NoFrame == [st |-> "idle", path |-> NoPath]
NoRec   == [path |-> NoPath, read |-> 0, size |-> -1, resolved |-> FALSE,
            value |-> "none", timer |-> FALSE, closed |-> FALSE,
            cancelled |-> FALSE, nreq |-> 0]
NoItem  == [kind |-> "none", pc |-> "none", path |-> NoPath, reason |-> "none",
            rid |-> 0, sibs |-> <<>>, ignore |-> "none", target |-> "-"]

InFlight(it) == it.pc \notin {"none", "waiting", "done", "failed"}

\* -------------------------------------------------------------- the MRU Map
MruIndex(m, p) ==
  IF \E k \in 1..Len(m) : m[k].path = p
  THEN CHOOSE k \in 1..Len(m) : m[k].path = p
  ELSE 0
MruDelete(m, p) == SelectSeq(m, LAMBDA r : r.path # p)
\* Map.set: a new key goes to the end, an existing key keeps its place
MruSet(m, rec) ==
  IF MruIndex(m, rec.path) > 0
  THEN [m EXCEPT ![MruIndex(m, rec.path)] = rec]
  ELSE Append(m, rec)

\* the state the synchronous code works on
World == [mru |-> mruFiles, recs |-> recs, open |-> openFiles, lock |-> lock,
          items |-> items, loc |-> loc, events |-> events, ret |-> NoInfo,
          nextItem |-> nextItem, nextRid |-> nextRid]

\* emit(name, data): the observers attached to the name record the event
Emit(w, ev) ==
  IF ev[1] \in observed THEN [w EXCEPT !.events = Append(@, ev)] ELSE w

\* locate(), lines 64-69: the path is in the MRU
LocateHit(w, p) ==
  LET rec == w.mru[MruIndex(w.mru, p)]
  IN  [w EXCEPT !.mru = Append(MruDelete(w.mru, p), rec),
                !.ret = rec]

\* locate(), lines 71-92, after the lstat calls: cached tells which one succeeded
LocateMissSourceOnly(w, p, cached) ==
  LET rec == [path |-> p, cached |-> FALSE, fullpath |-> "source",
              cacheable |-> preloadFilter(p)]
      m   == MruSet(w.mru, rec)
  IN  [w EXCEPT !.mru = IF Len(m) > mruSize THEN Tail(m) ELSE m, !.ret = rec]
LocateMissNoEvict(w, p, cached) ==
  LET rec == [path |-> p, cached |-> cached,
              fullpath |-> IF cached THEN "cache" ELSE "source",
              cacheable |-> preloadFilter(p)]
  IN  [w EXCEPT !.mru = MruSet(w.mru, rec), !.ret = rec]
LocateMiss(w, p, cached) ==
  LET rec == [path |-> p, cached |-> cached,
              fullpath |-> IF cached THEN "cache" ELSE "source",
              cacheable |-> preloadFilter(p)]
      m   == MruSet(w.mru, rec)
  IN  [w EXCEPT !.mru = IF Len(m) > mruSize THEN Tail(m) ELSE m,
                !.ret = rec]

\* locate(), lines 78-86: an lstat throws, the record is dropped
LocateThrowsInsert(w, c) ==
  LET rec == [path |-> w.loc[c].path, cached |-> FALSE, fullpath |-> "source",
              cacheable |-> preloadFilter(w.loc[c].path)]
      m   == MruSet(w.mru, rec)
  IN  [w EXCEPT !.mru = IF Len(m) > mruSize THEN Tail(m) ELSE m,
                !.loc[c] = NoFrame]
LocateThrows(w, c) == [w EXCEPT !.loc[c] = NoFrame]

\* ----------------------------------------------------------- getSiblings
RECURSIVE InsertSorted(_, _)
InsertSorted(s, f) ==
  IF s = <<>> THEN <<f>>
  ELSE IF Rank(f) < Rank(Head(s)) THEN <<f>> \o s
  ELSE <<Head(s)>> \o InsertSorted(Tail(s), f)
RECURSIVE Sort(_)
Sort(s) == IF s = <<>> THEN <<>> ELSE InsertSorted(Sort(Tail(s)), Head(s))
\* Array.prototype.indexOf, 0-based, -1 when absent
IndexOf(s, f) ==
  IF \E k \in 1..Len(s) : s[k] = f
  THEN (CHOOSE k \in 1..Len(s) : s[k] = f /\ \A j \in 1..(k-1) : s[j] # f) - 1
  ELSE -1
\* Array.prototype.slice(start, end) with its negative-index rule
Slice(s, start, end) ==
  LET n  == Len(s)
      from == IF start < 0 THEN (IF n + start < 0 THEN 0 ELSE n + start)
              ELSE (IF start > n THEN n ELSE start)
      to == IF end < 0 THEN (IF n + end < 0 THEN 0 ELSE n + end)
            ELSE (IF end > n THEN n ELSE end)
  IN  IF to <= from THEN <<>> ELSE SubSeq(s, from + 1, to)
\* getSiblings(), lines 219-228: listing is what readdir returns, n is
\* preloadSiblings
getSiblingsUnsorted(listing, path, n) ==
  LET files == SelectSeq(listing, preloadFilter)
      ix    == IndexOf(files, path)
  IN  Slice(files, ix, ix + n + 1)
getSiblings(listing, path, n) ==
  LET files == SelectSeq(Sort(listing), preloadFilter)
      ix    == IndexOf(files, path)
  IN  Slice(files, ix, ix + n + 1)

\* ------------------------------------------------------ mkdirs and rmdirs
\* mkdirs(dir) for the directory at level lvl, dirs levels existing
RECURSIVE mkdirs(_, _)
mkdirs(dirs, lvl) ==
  IF lvl <= dirs THEN dirs                     \* EEXIST
  ELSE IF lvl = dirs + 1 THEN lvl              \* mkdir succeeds
  ELSE mkdirs(mkdirs(dirs, lvl - 1), lvl)      \* ENOENT: parent, then again
\* rmdirs(dir) for the directory at level lvl; files: the bottom level has entries
\* level 0 is cacheDir itself; -1 says that cacheDir has been removed
RECURSIVE rmdirsPastRoot(_, _, _)
rmdirsPastRoot(dirs, lvl, files) ==
  IF lvl < 0 THEN dirs
  ELSE IF lvl < dirs \/ (lvl = Depth /\ files) THEN dirs
  ELSE rmdirsPastRoot(lvl - 1, lvl - 1, files)
RECURSIVE rmdirs(_, _, _)
rmdirs(dirs, lvl, files) ==
  IF lvl = 0 THEN dirs                         \* dir === cacheDir
  ELSE IF lvl < dirs \/ (lvl = Depth /\ files) THEN dirs   \* ENOTEMPTY
  ELSE rmdirs(lvl - 1, lvl - 1, files)


\* ------------------------------------------------- the serialized executor
Ev(name, path, reason) == <<name, path, reason>>

RECURSIVE StartItem(_, _), Release(_), NextSib(_, _)

\* the work item is over: PLock.exec releases in its finally clause
Finish(w, i) ==
  Release([w EXCEPT !.items[i] = [NoItem EXCEPT !.kind = w.items[i].kind,
                                                !.rid = w.items[i].rid,
                                                !.reason = w.items[i].reason,
                                                !.pc = "done"],
                    !.loc[<<"item", i>>] = NoFrame])

\* execute(), lines 198-201: the work item threw
FailSilent(w, i) ==
  Release([w EXCEPT !.items[i] = [NoItem EXCEPT !.kind = w.items[i].kind,
                                                !.rid = w.items[i].rid,
                                                !.reason = w.items[i].reason,
                                                !.pc = "failed"],
                    !.loc[<<"item", i>>] = NoFrame])
FailAndGoOn(w, i) ==
  IF w.items[i].kind = "preload" /\ Len(w.items[i].sibs) > 1
  THEN NextSib(Emit([w EXCEPT !.items[i].sibs = Tail(@),
                              !.loc[<<"item", i>>] = NoFrame],
                    Ev("error", NoPath, "-")), i)
  ELSE FailSilent(Emit(w, Ev("error", NoPath, "-")), i)
Fail(w, i) ==
  Release(Emit([w EXCEPT !.items[i] = [NoItem EXCEPT !.kind = w.items[i].kind,
                                                     !.rid = w.items[i].rid,
                                                     !.reason = w.items[i].reason,
                                                     !.pc = "failed"],
                         !.loc[<<"item", i>>] = NoFrame],
               Ev("error", NoPath, "-")))

\* PLock.release: hand the lock to the first awaiter, whose function starts
Release(w) ==
  IF w.lock.awaiters = <<>>
  THEN [w EXCEPT !.lock.held = FALSE]
  ELSE StartItem([w EXCEPT !.lock.awaiters = Tail(@)], Head(w.lock.awaiters))

\* getFileSize(), lines 204-207, once locate has returned
getFileSize(w, i) ==
  Finish([w EXCEPT !.recs[w.items[i].rid].size = FileSize], i)

\* cacheFile(), lines 233-239, once locate has returned rec
cacheFile(w, i, rec) ==
  IF rec.cached
  THEN NextSib([w EXCEPT !.items[i].sibs = Tail(@)], i)
  ELSE [w EXCEPT !.items[i].pc = "mkdir"]

\* uncacheFile(), lines 263-269, once locate has returned the record of p:
\* the record is changed; unlink is given the cache path computed before
uncacheFile(w, i, p) ==
  LET k == MruIndex(w.mru, p)
  IN  [w EXCEPT !.mru = IF k = 0 THEN @
                        ELSE [@ EXCEPT ![k].cached = FALSE,
                                       ![k].fullpath = "source"],
                !.items[i].target = "cache",
                !.items[i].pc = "unlink"]

\* a locate(p) called by work item i: answered from the MRU, or suspended in lstat
AfterLocate(w, i, p) ==
  LET k == w.items[i].kind
  IN  IF k = "size" THEN getFileSize(w, i)
      ELSE IF k = "preload" THEN cacheFile(w, i, w.ret)
      ELSE uncacheFile(w, i, p)
ItemLocate(w, i, p) ==
  IF MruIndex(w.mru, p) > 0
  THEN AfterLocate(LocateHit(w, p), i, p)
  ELSE [w EXCEPT !.items[i].pc = "locate",
                 !.loc[<<"item", i>>] = [st |-> "lstatCache", path |-> p]]

\* requestCache(), lines 212-216: the loop over the siblings
NextSib(w, i) ==
  IF w.items[i].sibs = <<>>
  THEN Finish(w, i)
  ELSE ItemLocate(w, i, Head(w.items[i].sibs))

\* the function of a work item runs up to its first IO call
StartItem(w, i) ==
  LET it == w.items[i]
  IN  IF it.kind = "size"
      THEN ItemLocate(w, i, it.path)
      ELSE IF it.kind = "preload"
      THEN [Emit(w, Ev("request", it.path, it.reason))
              EXCEPT !.items[i].pc = "readdir",
                     !.recs[it.rid].nreq = @ + 1]
      ELSE [w EXCEPT !.items[i].pc = "filescan"]

\* execute(), lines 195-202, with PLock.exec: run now if the lock is free,
\* wait in arrival order otherwise
ExecuteNoLock(w, it) ==
  StartItem([w EXCEPT !.items[w.nextItem] = it,
                      !.nextItem = @ + 1], w.nextItem)
ExecuteLifo(w, it) ==
  IF w.lock.held
  THEN [w EXCEPT !.items[w.nextItem] = [it EXCEPT !.pc = "waiting"],
                 !.lock.awaiters = <<w.nextItem>> \o @,
                 !.nextItem = @ + 1]
  ELSE StartItem([w EXCEPT !.items[w.nextItem] = it,
                           !.lock.held = TRUE,
                           !.nextItem = @ + 1], w.nextItem)
execute(w, it) ==
  IF w.lock.held
  THEN [w EXCEPT !.items[w.nextItem] = [it EXCEPT !.pc = "waiting"],
                 !.lock.awaiters = Append(@, w.nextItem),
                 !.nextItem = @ + 1]
  ELSE StartItem([w EXCEPT !.items[w.nextItem] = it,
                           !.lock.held = TRUE,
                           !.nextItem = @ + 1], w.nextItem)

\* ------------------------------------------------------- the TimedTrigger
\* trigger.fire(value): cancel the timer, resolve the promise; the then()
\* callback of onOpen (lines 115-117) enqueues the preload.  A resolved
\* promise stays as it is.
fireSilently(w, rid, reason) ==
  [w EXCEPT !.recs[rid].resolved = TRUE,
            !.recs[rid].value = IF w.recs[rid].resolved THEN @ ELSE reason,
            !.recs[rid].timer = FALSE]
fireLast(w, rid, reason) ==
  IF w.recs[rid].resolved
  THEN [w EXCEPT !.recs[rid].value = reason, !.recs[rid].timer = FALSE]
  ELSE execute([w EXCEPT !.recs[rid].resolved = TRUE,
                         !.recs[rid].value = reason,
                         !.recs[rid].timer = FALSE],
               [NoItem EXCEPT !.kind = "preload", !.pc = "start",
                              !.path = w.recs[rid].path,
                              !.reason = reason, !.rid = rid])
fireAgain(w, rid, reason) ==
  execute([w EXCEPT !.recs[rid].resolved = TRUE,
                    !.recs[rid].value = reason,
                    !.recs[rid].timer = FALSE],
          [NoItem EXCEPT !.kind = "preload", !.pc = "start",
                         !.path = w.recs[rid].path,
                         !.reason = reason, !.rid = rid])
fire(w, rid, reason) ==
  IF w.recs[rid].resolved
  THEN [w EXCEPT !.recs[rid].timer = FALSE]
  ELSE execute([w EXCEPT !.recs[rid].resolved = TRUE,
                         !.recs[rid].value = reason,
                         !.recs[rid].timer = FALSE],
               [NoItem EXCEPT !.kind = "preload", !.pc = "start",
                              !.path = w.recs[rid].path,
                              !.reason = reason, !.rid = rid])

\* onOpen(), lines 104-118, once locate has returned
onOpenTracked(w, fd, p) ==
  LET rid == w.nextRid
      w1  == Emit(w, Ev(IF w.ret.cached THEN "hit" ELSE "miss", p, "-"))
      w2  == [w1 EXCEPT !.recs[rid] = [NoRec EXCEPT !.path = p, !.timer = TRUE],
                        !.open[fd] = rid,
                        !.nextRid = @ + 1]
  IN  execute(w2, [NoItem EXCEPT !.kind = "size", !.pc = "start",
                                 !.path = p, !.rid = rid])

\* ------------------------------------------------------------------ actions
Commit(w) ==
  /\ mruFiles' = w.mru   /\ recs' = w.recs     /\ openFiles' = w.open
  /\ lock' = w.lock      /\ items' = w.items   /\ loc' = w.loc
  /\ events' = w.events  /\ ret' = w.ret
  /\ nextItem' = w.nextItem /\ nextRid' = w.nextRid

Vfs == <<"vfs", 0>>
Returned(c) == loc[c].st \in {"cacheOk", "lstatSource"}
MayFail == IF budget.fails > 0 THEN {TRUE, FALSE} ELSE {TRUE}
Spend(ok) == IF ok THEN budget ELSE [budget EXCEPT !.fails = @ - 1]
\* the byte counts of one read: none (end of file), 20% and 50% of a file
ReadSizes == {0, 2, 5}

\* lstat(cacheDir + path) is carried out: lines 79-85.  ENOENT makes locate
\* go on to lstat(sourceDir + path); the source tree never changes.  A file
\* that fs.copyFile is still writing has a directory entry as well.
LstatCache(c) ==
  /\ loc[c].st = "lstatCache"
  /\ loc' = [loc EXCEPT ![c].st = IF loc[c].path \in cacheFiles \cup partial
                                  THEN "cacheOk" ELSE "lstatSource"]
  /\ ret' = NoInfo
  /\ UNCHANGED <<cacheFiles, cacheDirs, atimeOld, mruFiles, openFiles, recs,
                 fdState, lock, items, events, nextItem, nextRid,
                 preloadRead, observed, siblingsCall, sourceFiles, partial, stamped, worker, copyJob, removeJob, budget>>

\* the adapter calls locate(path) before a getattr or an open
VfsLocate(p) ==
  /\ budget.locates > 0
  /\ loc[Vfs].st = "idle"
  /\ IF MruIndex(mruFiles, p) > 0
     THEN Commit(LocateHit(World, p))
     ELSE Commit([World EXCEPT !.loc[Vfs] = [st |-> "lstatCache", path |-> p]])
  /\ budget' = [budget EXCEPT !.locates = @ - 1]
  /\ UNCHANGED <<cacheFiles, cacheDirs, atimeOld, fdState, preloadRead, observed, siblingsCall, sourceFiles, partial, stamped, worker, copyJob, removeJob>>

VfsLocateDone ==
  /\ Returned(Vfs)
  /\ \E ok \in MayFail :
       /\ IF ok
          THEN Commit(LocateMiss([World EXCEPT !.loc[Vfs] = NoFrame],
                                 loc[Vfs].path, loc[Vfs].st = "cacheOk"))
          ELSE Commit(LocateThrows(World, Vfs))
       /\ budget' = Spend(ok)
  /\ UNCHANGED <<cacheFiles, cacheDirs, atimeOld, fdState, preloadRead, observed, siblingsCall, sourceFiles, partial, stamped, worker, copyJob, removeJob>>

\* onOpen(fd, path), lines 95-119
onOpen(fd, p) ==
  /\ budget.opens > 0
  /\ fdState[fd].st = "closed"
  /\ \A g \in Fds : g < fd => fdState[g].st # "closed"   \* open(2): lowest free fd
  /\ budget' = [budget EXCEPT !.opens = @ - 1]
  /\ IF ~preloadFilter(p)
     THEN /\ Commit(Emit(World, Ev("read", p, "-")))
          /\ fdState' = [fdState EXCEPT ![fd] = [st |-> "open", path |-> p]]
     ELSE IF MruIndex(mruFiles, p) > 0
     THEN /\ Commit(onOpenTracked(LocateHit(World, p), fd, p))
          /\ fdState' = [fdState EXCEPT ![fd] = [st |-> "open", path |-> p]]
     ELSE /\ Commit([World EXCEPT !.loc[<<"fd", fd>>] =
                                    [st |-> "lstatCache", path |-> p]])
          /\ fdState' = [fdState EXCEPT ![fd] = [st |-> "opening", path |-> p]]
  /\ UNCHANGED <<cacheFiles, cacheDirs, atimeOld, preloadRead, observed, siblingsCall, sourceFiles, partial, stamped, worker, copyJob, removeJob>>

onOpenDone(fd) ==
  /\ fdState[fd].st = "opening"
  /\ Returned(<<"fd", fd>>)
  /\ \E ok \in MayFail :
       /\ IF ok
          THEN Commit(onOpenTracked(
                 LocateMiss([World EXCEPT !.loc[<<"fd", fd>>] = NoFrame],
                            loc[<<"fd", fd>>].path,
                            loc[<<"fd", fd>>].st = "cacheOk"),
                 fd, loc[<<"fd", fd>>].path))
          ELSE Commit(LocateThrows(World, <<"fd", fd>>))
       /\ budget' = Spend(ok)
  /\ fdState' = [fdState EXCEPT ![fd].st = "open"]
  /\ UNCHANGED <<cacheFiles, cacheDirs, atimeOld, preloadRead, observed, siblingsCall, sourceFiles, partial, stamped, worker, copyJob, removeJob>>

\* onRead(fd, bytes), lines 121-130
onReadSizedOnly(w, rid, bytes) ==
  IF w.recs[rid].size < 0 THEN w
  ELSE LET w1 == [w EXCEPT !.recs[rid].read = @ + bytes]
       IN  IF w1.recs[rid].read * 100 > preloadRead * w1.recs[rid].size
           THEN fire(w1, rid, "read")
           ELSE w1
onReadAtThreshold(w, rid, bytes) ==
  LET w1 == [w EXCEPT !.recs[rid].read = @ + bytes]
  IN  IF w1.recs[rid].size >= 0
         /\ w1.recs[rid].read * 100 >= preloadRead * w1.recs[rid].size
      THEN fire(w1, rid, "read")
      ELSE w1
onReadRec(w, rid, bytes) ==
  LET w1 == [w EXCEPT !.recs[rid].read = @ + bytes]
  IN  IF w1.recs[rid].size >= 0
         /\ w1.recs[rid].read * 100 > preloadRead * w1.recs[rid].size
      THEN fire(w1, rid, "read")
      ELSE w1
onRead(fd, bytes) ==
  /\ fdState[fd].st = "open"
  /\ IF openFiles[fd] = 0
     THEN Commit(World)
     ELSE /\ recs[openFiles[fd]].read + bytes <= MaxRead
          /\ Commit(onReadRec(World, openFiles[fd], bytes))
  /\ UNCHANGED <<cacheFiles, cacheDirs, atimeOld, fdState, preloadRead, observed, siblingsCall, sourceFiles, partial, stamped, worker, copyJob, removeJob, budget>>

\* onClose(fd), lines 132-138; trigger.clear() cancels the timer
onCloseKeepTimer(w, fd) ==
  IF w.open[fd] = 0 THEN w
  ELSE [w EXCEPT !.recs[w.open[fd]].closed = TRUE,
                 !.recs[w.open[fd]].cancelled = ~w.recs[w.open[fd]].resolved,
                 !.open[fd] = 0]
onCloseKeepRec(w, fd) ==
  IF w.open[fd] = 0 THEN w
  ELSE [w EXCEPT !.recs[w.open[fd]].timer = FALSE,
                 !.recs[w.open[fd]].closed = TRUE,
                 !.recs[w.open[fd]].cancelled = ~w.recs[w.open[fd]].resolved]
onClosePath(w, fd) ==
  IF w.open[fd] = 0 THEN w
  ELSE [w EXCEPT
          !.recs = [r \in DOMAIN w.recs |->
                      IF w.recs[r].path = w.recs[w.open[fd]].path
                         /\ \E g \in DOMAIN w.open : w.open[g] = r
                      THEN [w.recs[r] EXCEPT !.timer = FALSE, !.closed = TRUE,
                                             !.cancelled = ~w.recs[r].resolved]
                      ELSE w.recs[r]],
          !.open = [g \in DOMAIN w.open |->
                      IF w.open[g] # 0
                         /\ w.recs[w.open[g]].path = w.recs[w.open[fd]].path
                      THEN 0 ELSE w.open[g]]]
onCloseRec(w, fd) ==
  IF w.open[fd] = 0 THEN w
  ELSE [w EXCEPT !.recs[w.open[fd]].timer = FALSE,
                 !.recs[w.open[fd]].closed = TRUE,
                 !.recs[w.open[fd]].cancelled = ~w.recs[w.open[fd]].resolved,
                 !.open[fd] = 0]
onClose(fd) ==
  /\ fdState[fd].st = "open"
  /\ Commit(onCloseRec(World, fd))
  /\ fdState' = [fdState EXCEPT ![fd] = [st |-> "closed", path |-> NoPath]]
  /\ UNCHANGED <<cacheFiles, cacheDirs, atimeOld, preloadRead, observed, siblingsCall, sourceFiles, partial, stamped, worker, copyJob, removeJob, budget>>

\* the timer of fireAfter(preloadOpen, 'time') expires
Timer(rid) ==
  /\ recs[rid].timer
  /\ Commit(fire([World EXCEPT !.recs[rid].timer = FALSE], rid, "time"))
  /\ UNCHANGED <<cacheFiles, cacheDirs, atimeOld, fdState, preloadRead, observed, siblingsCall, sourceFiles, partial, stamped, worker, copyJob, removeJob, budget>>

\* clean(cleanIgnore, cleanAfter), lines 140-143: enqueue the scan
clean(filter) ==
  /\ budget.cleans > 0
  /\ budget' = [budget EXCEPT !.cleans = @ - 1]
  /\ Commit(execute(World, [NoItem EXCEPT !.kind = "clean", !.pc = "start",
                                          !.ignore = filter]))
  /\ UNCHANGED <<cacheFiles, cacheDirs, atimeOld, fdState, preloadRead, observed, siblingsCall, sourceFiles, partial, stamped, worker, copyJob, removeJob>>

\* ------------------------------------------------- steps of the work items
Me(i) == <<"item", i>>

\* the locate() a work item awaits returns (or throws)
ItemLocateDone(i) ==
  /\ items[i].pc = "locate"
  /\ Returned(Me(i))
  /\ \E ok \in MayFail :
       /\ IF ok
          THEN Commit(AfterLocate(
                 LocateMiss([World EXCEPT !.loc[Me(i)] = NoFrame],
                            loc[Me(i)].path, loc[Me(i)].st = "cacheOk"),
                 i, loc[Me(i)].path))
          ELSE Commit(Fail(LocateThrows(World, Me(i)), i))
       /\ budget' = Spend(ok)
  /\ UNCHANGED <<cacheFiles, cacheDirs, atimeOld, fdState, preloadRead, observed, siblingsCall, sourceFiles, partial, stamped, worker, copyJob, removeJob>>

\* requestCache(), line 211: readdir of the source directory returns
Readdir(i) ==
  /\ items[i].pc = "readdir"
  /\ \E ok \in MayFail :
       /\ IF ok
          THEN Commit(NextSib([World EXCEPT !.items[i].sibs =
                                 getSiblings(SourceListing, items[i].path,
                                             preloadSiblings)], i))
          ELSE Commit(Fail(World, i))
       /\ budget' = Spend(ok)
  /\ UNCHANGED <<cacheFiles, cacheDirs, atimeOld, fdState, preloadRead, observed, siblingsCall, sourceFiles, partial, stamped, worker, copyJob, removeJob>>

\* cacheFile(), line 239: mkdirs(dirname(destFile)) returns
Mkdirs(i) ==
  /\ items[i].pc = "mkdir"
  /\ \E ok \in MayFail :
       /\ IF ok
          THEN /\ cacheDirs' = mkdirs(cacheDirs, Depth)
               /\ Commit([World EXCEPT !.items[i].pc = "copy"])
          ELSE /\ cacheDirs' \in {d \in cacheDirs..Depth :
                                    d = cacheDirs \/ d < Depth}
               /\ Commit(Fail(World, i))
       /\ budget' = Spend(ok)
  /\ UNCHANGED <<cacheFiles, atimeOld, fdState, preloadRead, observed, siblingsCall, sourceFiles, partial, stamped, worker, copyJob, removeJob>>

\* cacheFile(), line 240: fs.copyFile(sourceFile, destFile) has opened the
\* destination for writing and has not written all of it yet
CopyOpen(i) ==
  /\ items[i].pc = "copy"
  /\ Head(items[i].sibs) \notin cacheFiles \cup partial
  /\ partial' = partial \cup {Head(items[i].sibs)}
  /\ ret' = NoInfo
  /\ UNCHANGED <<cacheFiles, cacheDirs, atimeOld, mruFiles, openFiles, recs,
                 fdState, lock, items, loc, events, nextItem, nextRid,
                 preloadRead, observed, siblingsCall, sourceFiles, stamped,
                 worker, copyJob, removeJob, budget>>

\* cacheFile(), line 240: copyFile(sourceFile, destFile) returns; the copy
\* carries the time of the copy, and a failed fs.copyFile removes what it
\* had written of the destination
CopyFile(i) ==
  /\ items[i].pc = "copy"
  /\ \E ok \in MayFail :
       /\ IF ok
          THEN /\ cacheFiles' = cacheFiles \cup {Head(items[i].sibs)}
               /\ atimeOld' = atimeOld \ {Head(items[i].sibs)}
               /\ stamped' = stamped \ {Head(items[i].sibs)}
               /\ Commit([World EXCEPT !.items[i].pc = "utimes"])
          ELSE /\ UNCHANGED <<cacheFiles, atimeOld, stamped>>
               /\ Commit(Fail(World, i))
       /\ partial' = partial \ {Head(items[i].sibs)}
       /\ budget' = Spend(ok)
  /\ UNCHANGED <<cacheDirs, fdState, preloadRead, observed, siblingsCall, sourceFiles, worker, copyJob, removeJob>>

\* cacheFile(), lines 241-244, and requestCache(), lines 213-215: lstat of
\* the source and utimes of the copy return
Utimes(i) ==
  /\ items[i].pc = "utimes"
  /\ \E ok \in MayFail :
       /\ IF ok
          THEN /\ atimeOld' = IF Head(items[i].sibs) \in SourceAtimeOld
                                THEN atimeOld \cup {Head(items[i].sibs)}
                                ELSE atimeOld
               /\ stamped' = stamped \cup {Head(items[i].sibs)}
               /\ Commit(NextSib(
                    Emit([World EXCEPT
                            !.mru = MruDelete(@, Head(items[i].sibs)),
                            !.items[i].sibs = Tail(@)],
                         Ev("cache", Head(items[i].sibs), "-")), i))
          ELSE /\ UNCHANGED <<atimeOld, stamped>>
               /\ Commit(Fail(World, i))
       /\ budget' = Spend(ok)
  /\ UNCHANGED <<cacheFiles, cacheDirs, fdState, preloadRead, observed, siblingsCall, sourceFiles, partial, worker, copyJob, removeJob>>

\* clean(), lines 144-154: filescan yields its next entries; directories,
\* ignored names and recently accessed files are passed over
EvictableAnyAge(i) ==
  {f \in cacheFiles :
     /\ items[i].pc = "next" => Rank(f) > Rank(items[i].path)
     /\ ~cleanIgnore(items[i].ignore, f)}
Evictable(i) ==
  {f \in cacheFiles :
     /\ items[i].pc = "next" => Rank(f) > Rank(items[i].path)
     /\ ~cleanIgnore(items[i].ignore, f)
     /\ f \in atimeOld}
FileScan(i) ==
  /\ items[i].pc \in {"filescan", "next"}
  /\ \E ok \in MayFail :
       /\ IF ~ok
          THEN Commit(Fail(World, i))
          ELSE IF Evictable(i) = {}
          THEN Commit(Finish([World EXCEPT !.mru = <<>>], i))
          ELSE LET p == CHOOSE f \in Evictable(i) :
                          \A g \in Evictable(i) : Rank(f) <= Rank(g)
               IN  Commit(ItemLocate([World EXCEPT !.items[i].path = p], i, p))
       /\ budget' = Spend(ok)
  /\ UNCHANGED <<cacheFiles, cacheDirs, atimeOld, fdState, preloadRead, observed, siblingsCall, sourceFiles, partial, stamped, worker, copyJob, removeJob>>

\* uncacheFile(), line 269: unlink(fullpath) returns
Unlink(i) ==
  /\ items[i].pc = "unlink"
  /\ \E ok \in MayFail :
       /\ IF ok
          THEN /\ IF items[i].target = "cache"
                  THEN /\ cacheFiles' = cacheFiles \ {items[i].path}
                       /\ atimeOld' = atimeOld \ {items[i].path}
                       /\ stamped' = stamped \ {items[i].path}
                       /\ UNCHANGED sourceFiles
                  ELSE /\ sourceFiles' = sourceFiles \ {items[i].path}
                       /\ UNCHANGED <<cacheFiles, atimeOld, stamped>>
               /\ Commit([World EXCEPT !.items[i].pc = "rmdirs"])
          ELSE /\ UNCHANGED <<cacheFiles, atimeOld, sourceFiles, stamped>>
               /\ Commit(Fail(World, i))
       /\ budget' = Spend(ok)
  /\ UNCHANGED <<cacheDirs, fdState, preloadRead, observed, siblingsCall, partial, worker, copyJob, removeJob>>

\* uncacheFile(), line 270, and clean(), line 151: rmdirs returns
Rmdirs(i) ==
  /\ items[i].pc = "rmdirs"
  /\ \E ok \in MayFail :
       /\ IF ok
          THEN /\ cacheDirs' = rmdirs(cacheDirs, Depth, cacheFiles # {})
               /\ Commit(Emit([World EXCEPT !.items[i].pc = "next"],
                              Ev("uncache", items[i].path, "-")))
          ELSE /\ UNCHANGED cacheDirs
               /\ Commit(Fail(World, i))
       /\ budget' = Spend(ok)
  /\ UNCHANGED <<cacheFiles, atimeOld, fdState, preloadRead, observed, siblingsCall, sourceFiles, partial, stamped, worker, copyJob, removeJob>>

\* ------------------------------------------------------------ specification
InitBase ==
  /\ mruFiles = <<>>
  /\ openFiles = [f \in Fds |-> 0]
  /\ recs = [r \in Rids |-> NoRec]
  /\ fdState = [f \in Fds |-> [st |-> "closed", path |-> NoPath]]
  /\ lock = [held |-> FALSE, awaiters |-> <<>>]
  /\ items = [i \in ItemIds |-> NoItem]
  /\ loc = [c \in Callers |-> NoFrame]
  /\ events = <<>> /\ ret = NoInfo
  /\ nextItem = 1 /\ nextRid = 1
  /\ sourceFiles = Names
  /\ partial = {}

AllEvents == {"request", "cache", "uncache", "hit", "miss", "read", "error"}

\* the cache directory survives a restart: it may hold copies made earlier
InitWith(b, prs, obs, cached) ==
  /\ InitBase
  /\ cacheFiles \in cached
  /\ cacheDirs = (IF cacheFiles = {} THEN 0 ELSE Depth)
  /\ atimeOld \in SUBSET cacheFiles
  /\ stamped = cacheFiles
  /\ LibIdle
  /\ preloadRead \in prs /\ observed = obs /\ budget = b
  /\ siblingsCall = NoCall

NextCore ==
  \/ \E c \in Callers : LstatCache(c)
  \/ \E fd \in Fds, p \in Names : onOpen(fd, p)
  \/ \E fd \in Fds : onOpenDone(fd)
  \/ \E fd \in Fds : onClose(fd)
  \/ \E rid \in Rids : Timer(rid)
  \/ \E i \in ItemIds : ItemLocateDone(i)
  \/ \E i \in ItemIds : Readdir(i)
  \/ \E i \in ItemIds : Mkdirs(i)
  \/ \E i \in ItemIds : CopyFile(i)
  \/ \E i \in ItemIds : Utimes(i)
NextRead ==
  \E fd \in Fds, b \in ReadSizes : onRead(fd, b)
NextClean ==
  \/ \E f \in CleanFilters : clean(f)
  \/ \E i \in ItemIds : FileScan(i)
  \/ \E i \in ItemIds : Unlink(i)
  \/ \E i \in ItemIds : Rmdirs(i)
NextVfs ==
  \/ \E p \in Names : VfsLocate(p)
  \/ VfsLocateDone

\* opens, reads, timers and closes over an empty cache, with failing IO
Init == InitWith([opens |-> MaxOpens, cleans |-> 0, locates |-> 0,
                  fails |-> MaxFails],
                 {50}, AllEvents, {{}})
Next == NextCore \/ NextRead
Spec == Init /\ [][Next]_vars

\* the same calls with preloadRead 50 as in the tests, or 0; the IO succeeds
InitRead == InitWith([opens |-> MaxOpens, cleans |-> 0, locates |-> 0,
                      fails |-> 0],
                     {0, 50}, AllEvents, {{}})
SpecRead == InitRead /\ [][Next]_vars

\* the executor: opens, timers, cleans and failing IO
InitExec == InitWith([opens |-> MaxOpens, cleans |-> MaxCleans, locates |-> 0,
                      fails |-> MaxFails],
                     {50}, {"error"}, {{}})
NextExec == NextCore \/ NextClean
SpecExec == InitExec /\ [][NextExec]_vars

\* ------------------------------------------------------------ the executor
Running == {i \in ItemIds : InFlight(items[i])}
Ended(i) == items[i].pc \in {"done", "failed"}
Begun(i) == items[i].pc \notin {"none", "waiting"}
ErrorEvents == {k \in 1..Len(events) : events[k][1] = "error"}

\* C1: in every reachable state at most one work item (size fetch, preload
\* or clean) is between its start and its completion; in particular no
\* clean is in flight together with a preload.
C1_OneInFlight ==
  /\ Cardinality(Running) <= 1
  /\ \A i, j \in Running : ~(items[i].kind = "clean" /\ items[j].kind = "preload")
\* a clean is in flight while a preload is enqueued behind it
C1_Witness ==
  \E i, j \in ItemIds : /\ InFlight(items[i]) /\ items[i].kind = "clean"
                        /\ items[j].kind = "preload" /\ items[j].pc = "waiting"

\* C2: work items begin in the order they were enqueued (items are numbered
\* at enqueue time), and an item has begun only when every item enqueued
\* before it has completed, successfully or with an error.
C2_Fifo ==
  \A i, j \in ItemIds : (i < j /\ Begun(j)) => Ended(i)
\* one item is running with two more waiting behind it, in arrival order
C2_Witness ==
  \E i \in Running : /\ Len(lock.awaiters) >= 2
                     /\ items[lock.awaiters[1]].kind # items[lock.awaiters[2]].kind

\* C3: every failed work item has emitted exactly one error event, and the
\* failure leaves the executor working: the lock is held exactly while an
\* item is in flight, so that no enqueued item waits on an idle executor,
\* and the items behind a failed one are started.
C3_ErrorOnceAndGoOn ==
  /\ Cardinality(ErrorEvents) = Cardinality({i \in ItemIds : items[i].pc = "failed"})
  /\ lock.held = (Running # {})
  /\ lock.awaiters # <<>> => Running # {}
  /\ \A i \in ItemIds : items[i].pc = "waiting" <=>
                          \E k \in 1..Len(lock.awaiters) : lock.awaiters[k] = i
\* a work item failed and the item enqueued behind it has run to its end
C3_Witness ==
  \E i, j \in ItemIds : /\ i < j /\ items[i].pc = "failed"
                        /\ items[j].pc = "done" /\ Len(events) = 1

\* ---------------------------------------------------- the preload trigger
Sessions == {rid \in Rids : recs[rid].path # NoPath}
PreloadsOf(rid) == {i \in ItemIds : items[i].kind = "preload" /\ items[i].rid = rid}
RequestEvents == {k \in 1..Len(events) : events[k][1] = "request"}

\* C4: one open session requests at most one preload.  A fired trigger has
\* enqueued exactly one preload, carrying the reason it was first fired
\* with; its request event is emitted once, when the preload starts; a
\* session closed before its trigger fired has none.  The request events of
\* the log are those of the sessions, one each, with the session's reason.
C4_OneRequestPerOpen ==
  /\ \A rid \in Sessions :
       /\ recs[rid].nreq <= 1
       /\ Cardinality(PreloadsOf(rid)) = (IF recs[rid].resolved THEN 1 ELSE 0)
       /\ \A i \in PreloadsOf(rid) :
            /\ items[i].reason = recs[rid].value
            /\ (recs[rid].nreq = 1) = Begun(i)
       /\ recs[rid].cancelled => recs[rid].nreq = 0
       /\ ~recs[rid].resolved => recs[rid].nreq = 0 /\ recs[rid].value = "none"
  /\ Cardinality(RequestEvents) = Cardinality({rid \in Sessions : recs[rid].nreq = 1})
  /\ \A k \in RequestEvents :
       \E rid \in Sessions : /\ recs[rid].nreq = 1
                             /\ events[k][2] = recs[rid].path
                             /\ events[k][3] = recs[rid].value
\* the timer fired first and the reads have since gone over the threshold of
\* the still open file: there is one request, with reason time
C4_Witness ==
  \E fd \in Fds :
    /\ openFiles[fd] # 0
    /\ LET r == recs[openFiles[fd]]
       IN  /\ r.value = "time" /\ r.nreq = 1 /\ r.size >= 0
           /\ r.read * 100 > preloadRead * r.size
    /\ \E k \in RequestEvents : events[k][3] = "time"

\* C5: a session closed while its trigger was armed never fires: its timer
\* is cancelled, no preload is ever enqueued for it and no request is
\* emitted; as long as no trigger has fired, nothing is written to the
\* cache and no request or cache event is emitted.
C5_CloseCancels ==
  /\ \A rid \in Sessions :
       recs[rid].cancelled =>
         /\ recs[rid].closed /\ ~recs[rid].resolved /\ ~recs[rid].timer
         /\ recs[rid].nreq = 0 /\ PreloadsOf(rid) = {}
  /\ (\A rid \in Sessions : ~recs[rid].resolved) =>
       /\ cacheFiles = {} /\ cacheDirs = 0
       /\ \A k \in 1..Len(events) : events[k][1] \notin {"request", "cache"}
\* a file was opened, its size fetched, some of it read below the threshold,
\* and closed with the trigger still armed
C5_Witness ==
  \E rid \in Sessions : /\ recs[rid].cancelled /\ recs[rid].size >= 0
                        /\ recs[rid].read > 0
                        /\ \A i \in ItemIds : ~InFlight(items[i])

\* C7: a read that adds bytes leaves the trigger fired exactly if it was
\* fired before or the size is known and the new cumulative count is
\* strictly above size * preloadRead / 100, in which case an unfired
\* trigger is fired with reason read; and a trigger is only ever fired with
\* reason read when the size is known and the count is above the threshold.
C7_ReadThreshold ==
  [][\A rid \in Rids :
       LET r    == recs[rid]
           r2   == recs'[rid]
           over == r.size >= 0 /\ r2.read * 100 > preloadRead * r.size
       IN  /\ r2.read > r.read =>
                /\ r2.resolved = (r.resolved \/ over)
                /\ (~r.resolved /\ over) => r2.value = "read"
                /\ r.resolved => r2.value = r.value
           /\ (~r.resolved /\ r2.resolved /\ r2.value = "read") =>
                (r.path # NoPath /\ over)]_vars
\* the size is known and exactly half of the file has been read with
\* preloadRead = 50: the trigger has not fired
C7_Witness ==
  \E rid \in Sessions : /\ recs[rid].size >= 0 /\ recs[rid].read > 0
                        /\ recs[rid].read * 100 = preloadRead * recs[rid].size
                        /\ ~recs[rid].resolved /\ recs[rid].timer

\* ------------------------------------------------------ untracked opens
Uncacheable == Names \ FlacNames
Untracked(fd) == fdState[fd].st = "open" /\ fdState[fd].path \in Uncacheable

\* C8: the open of a path that fails the preload filter emits one read
\* event of the path and changes nothing else: no record, no trigger, no
\* locate, no work item.  While the fd is open it has no record, so a read
\* or a close of it changes neither records, work items, events nor cache;
\* and no hit, miss, request or cache event, no record and no work item ever
\* names such a path.
C8_UncacheableOpen ==
  /\ [](/\ \A fd \in Fds : Untracked(fd) =>
              openFiles[fd] = 0 /\ loc[<<"fd", fd>>] = NoFrame
        /\ \A rid \in Rids : recs[rid].path \notin Uncacheable
        /\ \A i \in ItemIds : items[i].path \notin Uncacheable
        /\ \A k \in 1..Len(events) :
              events[k][2] \in Uncacheable => events[k][1] = "read"
        /\ \A k \in 1..Len(mruFiles) : mruFiles[k].path \notin Uncacheable)
  /\ [][\A fd \in Fds :
          /\ (fdState[fd].st = "closed" /\ fdState'[fd].path \in Uncacheable) =>
                /\ fdState'[fd].st = "open"
                /\ events' = Append(events, Ev("read", fdState'[fd].path, "-"))
                /\ UNCHANGED <<cacheFiles, cacheDirs, mruFiles, openFiles, recs,
                               lock, items, loc, nextItem, nextRid>>
          /\ (Untracked(fd) /\ fdState'[fd] # fdState[fd]) =>
                /\ fdState'[fd].st = "closed"
                /\ UNCHANGED <<cacheFiles, cacheDirs, mruFiles, openFiles, recs,
                               lock, items, loc, events, nextItem, nextRid>>]_vars
\* file2.claf was opened and closed again; the log holds its read event only
C8_Witness ==
  /\ events = <<Ev("read", "file2.claf", "-")>>
  /\ budget.opens = 0
  /\ \A fd \in Fds : fdState[fd].st = "closed"

\* ------------------------------------------- locate against a changing cache
\* opens, cleans and locate calls of the adapter over a cache directory that
\* holds copies from an earlier run; the observer listens to hit and miss
InitRace == InitWith([opens |-> MaxOpens, cleans |-> MaxCleans,
                      locates |-> MaxLocates, fails |-> 0],
                     {50}, {"hit", "miss"}, SUBSET FlacNames)
NextRace == NextCore \/ NextClean \/ NextVfs
SpecRace == InitRace /\ [][NextRace]_vars

\* C10: whenever a locate() has just returned a record with cached = true,
\* the file of its path exists in the cache directory.
C10_CachedMeansPresent ==
  ret.cached => ret.path \in cacheFiles

\* the running work item is between the MRU update and the end of the IO
\* that removes (uncacheFile) or completes (cacheFile) the copy of p
BeingChanged(p) ==
  \E i \in ItemIds :
     \/ items[i].pc = "unlink" /\ items[i].path = p
     \/ items[i].pc = "utimes" /\ Head(items[i].sibs) = p

\* C9: the open of a cacheable path emits exactly one event, hit or miss.
\* Answered at once (from the MRU): hit only if the cache holds a copy of
\* the path at the open, miss only if it holds none or the running work
\* item is just removing or completing the copy.  Answered after the lstat
\* calls: hit exactly if the cache held the copy when locate looked for it.
C9_HitIffCached ==
  [][\A fd \in Fds :
       (openFiles[fd] = 0 /\ openFiles'[fd] # 0) =>
         LET p == fdState'[fd].path
         IN  \E e \in {"hit", "miss"} :
               /\ events' = Append(events, Ev(e, p, "-"))
               /\ IF fdState[fd].st = "closed"
                  THEN /\ e = "hit" => p \in cacheFiles
                       /\ e = "miss" => (p \notin cacheFiles \/ BeingChanged(p))
                  ELSE (e = "hit") = (loc[<<"fd", fd>>].st = "cacheOk")]_vars

\* C6: a preload whose session is closed still runs: when it completes, its
\* request has been emitted and every sibling it was to copy is in the cache.
C6_PreloadSurvivesClose ==
  [][\A i \in ItemIds :
       (items[i].kind = "preload" /\ InFlight(items[i]) /\ items'[i].pc = "done"
          /\ recs[items[i].rid].closed) =>
         /\ recs'[items[i].rid].nreq = 1
         /\ LET sibs == getSiblings(SourceListing, items[i].path,
                                     preloadSiblings)
            IN  \A k \in 1..Len(sibs) : sibs[k] \in cacheFiles']_vars

\* ------------------------------------------------- locate after an eviction
\* the same calls as in SpecRace; the observer listens to uncache and cache
InitEvict == InitWith([opens |-> MaxOpens, cleans |-> MaxCleans,
                       locates |-> MaxLocates, fails |-> 0],
                      {50}, {"uncache", "cache"}, SUBSET FlacNames)
SpecEvict == InitEvict /\ [][NextRace]_vars

\* uncache(p) has been emitted, no cache(p) after it, and the cache holds no
\* copy of p
Evicted(p) ==
  /\ p \notin cacheFiles
  /\ \E k \in 1..Len(events) :
        /\ events[k] = Ev("uncache", p, "-")
        /\ \A j \in (k+1)..Len(events) : events[j] # Ev("cache", p, "-")

\* C11: a locate(p) called after uncache(p) and answered at once (a call of
\* the adapter or of onOpen that finds p in the MRU) returns cached = false
\* and the source path, as long as p has not been cached again.
C11_EvictedIsSource ==
  [][\A p \in Names :
       (/\ Evicted(p) /\ ret'.path = p
        /\ \/ budget'.locates < budget.locates /\ loc'[Vfs] = NoFrame
           \/ \E fd \in Fds : openFiles[fd] = 0 /\ openFiles'[fd] # 0
                              /\ fdState[fd].st = "closed")
       => (~ret'.cached /\ ret'.fullpath = "source")]_vars

\* ------------------------------------------------------ caching a cached path
\* C12: cacheFile(p) goes on to copy (mkdirs, copyFile, utimes, and the
\* cache event of requestCache) only if the cache holds no copy of p when
\* its locate returns; on a cached p it copies nothing and emits nothing.
C12_CachedIsNoOp ==
  [][\A i \in ItemIds :
       (items'[i].pc = "mkdir" /\ items[i].pc # "mkdir") =>
          Head(items'[i].sibs) \notin cacheFiles]_vars

\* opens, cleans and locate calls of the adapter over a cache directory that
\* holds copies from an earlier run, with failing IO; the observer listens
\* to request and cache
InitCopy == InitWith([opens |-> MaxOpens, cleans |-> MaxCleans,
                      locates |-> MaxLocates, fails |-> MaxFails],
                     {50}, {"request", "cache"}, SUBSET FlacNames)
SpecCopy == InitCopy /\ [][NextRace]_vars

\* ---------------------------------------------------- locate after a copy
\* cache(p) has been emitted, no uncache(p) after it, the cache holds the
\* copy of p and no work item is removing it
Copied(p) ==
  /\ p \in cacheFiles /\ ~BeingChanged(p)
  /\ \E k \in 1..Len(events) :
        /\ events[k] = Ev("cache", p, "-")
        /\ \A j \in (k+1)..Len(events) : events[j] # Ev("uncache", p, "-")

\* C13: once cache(p) has been emitted and until p is evicted, the MRU holds
\* no record of p that says cached = false, so that every locate(p) answered
\* from the MRU returns cached = true and the path of the copy.
C13_CopiedIsCached ==
  \A p \in Names :
    Copied(p) =>
      /\ \A k \in 1..Len(mruFiles) :
            mruFiles[k].path = p =>
              (mruFiles[k].cached /\ mruFiles[k].fullpath = "cache")

\* ------------------------------------------------------------------ the MRU
\* opens, preloads and locate calls of the adapter, the IO succeeds
InitMru == InitWith([opens |-> MaxOpens, cleans |-> 0,
                     locates |-> MaxLocates + 1, fails |-> 0],
                    {50}, {}, {{}})
NextMru == NextCore \/ NextVfs
SpecMru == InitMru /\ [][NextMru]_vars

MruPaths == {mruFiles[k].path : k \in 1..Len(mruFiles)}

\* C14: the MRU never holds more than mruSize records, nor two records of
\* one path.
C14_MruBounded ==
  /\ Len(mruFiles) <= mruSize
  /\ \A j, k \in 1..Len(mruFiles) : mruFiles[j].path = mruFiles[k].path => j = k
\* the MRU is full of other paths, and the path of an open file whose
\* trigger has not fired (no copy has deleted its record) is no longer in it
C14_Witness ==
  /\ Len(mruFiles) = mruSize
  /\ \E rid \in Sessions : /\ ~recs[rid].resolved
                           /\ recs[rid].path \notin MruPaths

\* C15: the MRU is ordered by recency of use: the record a locate has just
\* returned, found or new, is the last one of the MRU, and an adapter locate
\* that inserts a path into a full MRU drops the first record.
C15_RecencyOrder ==
  [][/\ ret'.path # NoPath =>
          /\ mruFiles' # <<>>
          /\ mruFiles'[Len(mruFiles')].path = ret'.path
     /\ (/\ Returned(Vfs) /\ loc'[Vfs] = NoFrame
         /\ ret'.path # NoPath /\ ret'.path \notin MruPaths)
        => mruFiles' = Append(IF Len(mruFiles) = mruSize
                                THEN Tail(mruFiles) ELSE mruFiles, ret')]_vars

\* C16: a locate of a path that is not in the MRU asks the cache first.  Its
\* lstat of the cache path succeeds iff the cache holds the file, and only a
\* failure makes it ask the source; the record it returns says cached with
\* the cache path iff that lstat succeeded, otherwise not cached with the
\* source path, and cacheable iff the name matches the preload filter.
C16_CacheFirst ==
  [][\A c \in Callers :
       /\ (loc[c].st = "lstatCache" /\ loc'[c].st # "lstatCache") =>
             /\ loc'[c].st = "cacheOk" <=> loc[c].path \in cacheFiles
             /\ loc'[c].st = "lstatSource" <=> loc[c].path \notin cacheFiles
       /\ (Returned(c) /\ loc'[c] = NoFrame /\ ret'.path = loc[c].path) =>
             /\ ret'.cached <=> loc[c].st = "cacheOk"
             /\ ret'.fullpath = IF loc[c].st = "cacheOk" THEN "cache" ELSE "source"
             /\ ret'.cacheable <=> loc[c].path \in FlacNames]_vars
\* the adapter's first locate has returned a record of the cache: no record
\* of a copy is in the MRU before, so the path was not in it
C16_Witness ==
  /\ ret.path \in Names /\ ret.cached /\ ret.fullpath = "cache"
  /\ budget.locates = MaxLocates
  /\ loc[Vfs] = NoFrame

\* -------------------------------------------------------- a failing locate
\* an open, its preload and one locate call of the adapter; the IO may fail
InitFail == InitWith([opens |-> MaxOpens, cleans |-> 0,
                      locates |-> MaxLocates, fails |-> MaxFails],
                     {50}, {"error"}, {{}})
SpecFail == InitFail /\ [][NextMru]_vars

\* c's locate is waiting for an lstat that throws in this step
LocateFails(c) ==
  /\ Returned(c) /\ loc'[c] = NoFrame
  /\ budget'.fails < budget.fails

\* C17: a locate whose lstat throws hands the error to its caller (the
\* adapter gets no record, the open is not tracked, the work item ends with
\* an error event) and leaves the MRU as it was: the records are the same
\* and in the same order, but for what the work item started next does.
C17_FailedLocate ==
  [][/\ LocateFails(Vfs) => (ret' = NoInfo /\ mruFiles' = mruFiles)
     /\ \A fd \in Fds :
          LocateFails(<<"fd", fd>>) =>
             /\ ret' = NoInfo /\ mruFiles' = mruFiles
             /\ openFiles'[fd] = 0 /\ events' = events
     /\ \A i \in ItemIds :
          LocateFails(Me(i)) =>
             /\ items'[i].pc = "failed"
             /\ events' = Append(events, Ev("error", NoPath, "-"))
             /\ {mruFiles'[k] : k \in 1..Len(mruFiles')}
                  = {mruFiles[k] : k \in 1..Len(mruFiles)}
             /\ lock.awaiters = <<>> => mruFiles' = mruFiles]_vars
\* a preload has copied a file and failed in the locate of the next one (a
\* record of that one would be in the MRU had the locate returned), while
\* the MRU held the record of another path
C17_Witness ==
  /\ \E i \in ItemIds : items[i].pc = "failed" /\ items[i].kind = "preload"
  /\ cacheFiles # {}
  /\ mruFiles # <<>> /\ MruPaths \cap FlacNames = {}
  /\ events = <<Ev("error", NoPath, "-")>>

\* ------------------------------------------------------------ getSiblings
\* the listings readdir may return: up to MaxDir of the fixture's names, in
\* any order
Listings ==
  {s \in UNION {[1..k -> DirNames] : k \in 0..MaxDir} :
     \A j, k \in DOMAIN s : s[j] = s[k] => j = k}

\* getSiblings is called for the path of an open that passed the filter
InitSib ==
  /\ InitBase
  /\ cacheFiles = {} /\ cacheDirs = 0 /\ atimeOld = {} /\ stamped = {}
  /\ LibIdle
  /\ preloadRead = 50 /\ observed = {}
  /\ budget = [opens |-> 0, cleans |-> 0, locates |-> 0, fails |-> 0]
  /\ \E l \in Listings, p \in DirNames \cap Flac, n \in 0..MaxSib :
       siblingsCall = [listing |-> l, path |-> p, n |-> n, out |-> <<>>,
                       done |-> FALSE]

GetSiblings ==
  /\ ~siblingsCall.done
  /\ siblingsCall' = [siblingsCall EXCEPT
                        !.out = getSiblings(siblingsCall.listing,
                                            siblingsCall.path, siblingsCall.n),
                        !.done = TRUE]
  /\ UNCHANGED <<cacheFiles, cacheDirs, atimeOld, mruFiles, openFiles, recs,
                 fdState, lock, items, loc, events, ret, nextItem, nextRid,
                 preloadRead, observed, sourceFiles, partial, stamped, worker, copyJob, removeJob, budget>>

SpecSib == InitSib /\ [][GetSiblings]_vars

Listed == {siblingsCall.listing[k] : k \in 1..Len(siblingsCall.listing)}
\* the entries that pass the filter and do not sort before the path
Following == {f \in Listed \cap Flac : Rank(f) >= Rank(siblingsCall.path)}
Min(a, b) == IF a < b THEN a ELSE b

\* C18: for a path the directory holds, getSiblings returns the path first
\* and then the entries passing the filter that follow it in ascending
\* order, none left out, preloadSiblings + 1 paths in all or as many as
\* there are.
C18_Siblings ==
  LET out == siblingsCall.out
  IN  (siblingsCall.done /\ siblingsCall.path \in Listed) =>
        /\ Len(out) = Min(siblingsCall.n + 1, Cardinality(Following))
        /\ out[1] = siblingsCall.path
        /\ \A k \in 1..Len(out) : out[k] \in Following
        /\ \A k \in 1..(Len(out) - 1) :
              /\ Rank(out[k]) < Rank(out[k + 1])
              /\ ~\E f \in Following :
                    Rank(out[k]) < Rank(f) /\ Rank(f) < Rank(out[k + 1])
\* readdir returned the entries unsorted, one that fails the filter lies
\* between, and fewer entries follow than preloadSiblings asks for
C18_Witness ==
  /\ siblingsCall.done
  /\ siblingsCall.listing = <<"file3.flac", "file2.claf", "file1.flac">>
  /\ siblingsCall.path = "file1.flac" /\ siblingsCall.n = 2
  /\ siblingsCall.out = <<"file1.flac", "file3.flac">>

\* C19: for a path the filtered listing does not hold (the file was removed
\* after it was opened), getSiblings returns the empty list, whatever
\* preloadSiblings and the size of the directory are.
C19_AbsentIsEmpty ==
  (siblingsCall.done /\ siblingsCall.path \notin Listed)
     => siblingsCall.out = <<>>

\* ------------------------------------------------ the events of a preload
\* opens, preloads and clean over a cache that may hold copies; the IO may
\* fail; the observer listens to hit, miss, request and cache
InitOrder == InitWith([opens |-> MaxOpens, cleans |-> MaxCleans,
                       locates |-> 0, fails |-> MaxFails],
                      {50}, {"hit", "miss", "request", "cache"},
                      SUBSET FlacNames)
SpecOrder == InitOrder /\ [][NextExec]_vars

\* the index of the last request event before position k of log, 0 if none
LastRequest(log, k) ==
  IF \E j \in 1..(k - 1) : log[j][1] = "request"
  THEN CHOOSE j \in 1..(k - 1) :
         /\ log[j][1] = "request"
         /\ \A m \in (j + 1)..(k - 1) : log[m][1] # "request"
  ELSE 0

\* every cache event follows the request of its preload, is of a sibling of
\* the requested path, and follows the preload's earlier cache events in
\* ascending order
CacheAfterRequest(log) ==
  \A k \in 1..Len(log) :
    log[k][1] = "cache" =>
      LET j == LastRequest(log, k)
      IN  /\ j > 0
          /\ \E n \in 1..(preloadSiblings + 1) :
                LET sibs == getSiblings(SourceListing, log[j][2],
                                        preloadSiblings)
                IN  n <= Len(sibs) /\ sibs[n] = log[k][2]
          /\ \A m \in (j + 1)..(k - 1) :
                log[m][1] = "cache" => Rank(log[m][2]) < Rank(log[k][2])

\* every request follows the hit or miss of an open of its path
RequestAfterOpen(log) ==
  \A k \in 1..Len(log) :
    log[k][1] = "request" =>
      \E j \in 1..(k - 1) : /\ log[j][1] \in {"hit", "miss"}
                            /\ log[j][2] = log[k][2]

\* C20: the request of a preload precedes its cache events and follows the
\* hit or miss of its open; the cache events come in ascending order of the
\* siblings; a preload copies only siblings the cache does not hold, and
\* emits one cache event for each copy it completes and no other.
C20_PreloadEvents ==
  [][/\ CacheAfterRequest(events')
     /\ RequestAfterOpen(events')
     /\ \A i \in ItemIds :
          /\ (items[i].pc = "copy" /\ items'[i].pc = "utimes")
                => Head(items[i].sibs) \notin cacheFiles
          /\ (items[i].pc = "utimes" /\ items'[i].pc \notin {"utimes", "failed"})
                => /\ Len(events') > Len(events)
                   /\ events'[Len(events) + 1]
                        = Ev("cache", Head(items[i].sibs), "-")
     /\ \A k \in (Len(events) + 1)..Len(events') :
          events'[k][1] = "cache" =>
             /\ k = Len(events) + 1
             /\ \E i \in ItemIds : /\ items[i].pc = "utimes"
                                   /\ events'[k][2] = Head(items[i].sibs)]_vars

\* ------------------------------------------------------------------- clean
\* cleans and locate calls of the adapter over a cache that holds copies:
\* no file is open; the IO may fail
InitSweep == InitWith([opens |-> 0, cleans |-> MaxCleans,
                       locates |-> MaxLocates + 1, fails |-> MaxFails],
                      {50}, {"uncache"}, SUBSET FlacNames)
NextSweep ==
  \/ \E c \in Callers : LstatCache(c)
  \/ \E i \in ItemIds : ItemLocateDone(i)
  \/ NextClean
  \/ NextVfs
SpecSweep == InitSweep /\ [][NextSweep]_vars

\* work item i is a clean whose scan ends in this step
CleanCompletes(i) ==
  /\ items[i].kind = "clean" /\ InFlight(items[i])
  /\ items'[i].pc = "done"

\* C21: a file leaves the cache only when a clean is running whose filter it
\* does not match and its access time is old; when a clean completes, every
\* file left in the cache matches the filter or was accessed recently.
C21_CleanEvicts ==
  [][/\ \A f \in cacheFiles \ cacheFiles' :
          /\ f \in atimeOld
          /\ \E i \in ItemIds : /\ items[i].kind = "clean"
                                /\ items[i].pc = "unlink"
                                /\ ~cleanIgnore(items[i].ignore, f)
     /\ \A i \in ItemIds :
          CleanCompletes(i) =>
            \A f \in cacheFiles' :
               cleanIgnore(items[i].ignore, f) \/ f \notin atimeOld']_vars
\* a clean is over that has evicted one old file and kept another old one
C21_Witness ==
  /\ \E i \in ItemIds : items[i].kind = "clean" /\ items[i].pc = "done"
  /\ \E k \in 1..Len(events) : events[k][1] = "uncache"
  /\ cacheFiles \cap atimeOld # {}

\* a clean has completed and none is running or waiting
CleanOver ==
  /\ \E i \in ItemIds : items[i].kind = "clean" /\ items[i].pc = "done"
  /\ \A i \in ItemIds : items[i].kind = "clean" => items[i].pc \in {"done", "failed"}

\* C22: the step that completes a clean leaves the MRU empty, and a locate
\* called after the clean is not answered with a record of what the cache
\* held before or during the clean: with no preload and no other clean, the
\* record it returns from the MRU agrees with the cache directory.
C22_CleanEmptiesMru ==
  [][/\ \A i \in ItemIds : CleanCompletes(i) => mruFiles' = <<>>
     /\ (/\ CleanOver
         /\ budget'.locates < budget.locates
         /\ ret'.path # NoPath)
        => (ret'.cached <=> ret'.path \in cacheFiles)]_vars

\* ------------------------------------------------- the two directory trees
\* opens, preloads and cleans over an empty cache; the IO may fail
InitDirs == InitWith([opens |-> MaxOpens, cleans |-> MaxCleans,
                      locates |-> 0, fails |-> MaxFails],
                     {50}, {}, {{}})
NextDirs ==
  \/ \E c \in Callers : LstatCache(c)
  \/ \E fd \in Fds, p \in Names : onOpen(fd, p)
  \/ \E fd \in Fds : onOpenDone(fd)
  \/ \E rid \in Rids : Timer(rid)
  \/ \E i \in ItemIds : ItemLocateDone(i)
  \/ \E i \in ItemIds : Readdir(i)
  \/ \E i \in ItemIds : Mkdirs(i)
  \/ \E i \in ItemIds : CopyFile(i)
  \/ \E i \in ItemIds : Utimes(i)
  \/ NextClean
SpecDirs == InitDirs /\ [][NextDirs]_vars

C24_NoEmptyDirs ==
  ~lock.held => (cacheDirs > 0 <=> cacheFiles # {})

\* work item i is a preload whose cacheFile of its current sibling throws in
\* this step
CacheFileFails(i) ==
  /\ items[i].kind = "preload"
  /\ items[i].pc \in {"locate", "mkdir", "copy", "utimes"}
  /\ items'[i].pc = "failed"

\* C25: when cacheFile(p) fails with an IO error, the cache holds no file
\* for p afterwards and the record of p in the MRU, if any, says not cached
\* with the source path (so the next open of p emits miss).
C25_FailedCopyLeavesNothing ==
  [][\A i \in ItemIds :
       CacheFileFails(i) =>
         LET p == Head(items[i].sibs)
         IN  /\ p \notin cacheFiles'
             /\ \A k \in 1..Len(mruFiles') :
                   mruFiles'[k].path = p =>
                     (~mruFiles'[k].cached /\ mruFiles'[k].fullpath = "source")]_vars

\* the unlink of clean's uncacheFile(p) throws in this step
UnlinkFails(i) ==
  /\ items[i].kind = "clean" /\ items[i].pc = "unlink"
  /\ items'[i].pc = "failed"

\* C26: when the unlink of an eviction fails, the file is still in the cache
\* with its old access time (a later clean finds it again), no uncache event
\* is emitted, and a locate of it is answered cached with the cache path:
\* no record of it in the MRU says otherwise.
C26_FailedEvictionKeepsFile ==
  [][\A i \in ItemIds :
       UnlinkFails(i) =>
         LET p == items[i].path
         IN  /\ p \in cacheFiles' /\ p \in atimeOld'
             /\ events' = events
             /\ \A k \in 1..Len(mruFiles') :
                   mruFiles'[k].path = p =>
                     (mruFiles'[k].cached /\ mruFiles'[k].fullpath = "cache")]_vars

\* ---------------------------------------------------------- the open files
\* the fds that have a record in openFiles
Tracked == {fd \in Fds : openFiles[fd] # 0}
\* the fds given to onOpen with a path that passes the filter and not yet
\* given to onClose
OpenedCacheable ==
  {fd \in Fds : fdState[fd].st # "closed" /\ fdState[fd].path \in FlacNames}

Fired(r)     == r.resolved
Cancelled(r) == r.cancelled
Armed(r)     == r.path # NoPath /\ ~r.resolved /\ ~r.cancelled

InitLive == InitWith([opens |-> MaxOpens, cleans |-> 0, locates |-> 0,
                      fails |-> 0],
                     {50}, {}, {{}})
SpecLive == /\ InitLive /\ [][Next]_vars
            /\ \A rid \in Rids : WF_vars(Timer(rid))

\* C29: every armed trigger ends fired or cancelled, and a trigger whose
\* record has been removed from openFiles has no timer pending.
C29_TriggerLeavesArmed ==
  /\ \A rid \in Rids :
       Armed(recs[rid]) ~> (Fired(recs[rid]) \/ Cancelled(recs[rid]))
  /\ [](\A rid \in Rids : recs[rid].closed => ~recs[rid].timer)
\* a file was closed while its trigger was armed: the trigger is cancelled
C29_Witness ==
  \E rid \in Rids : /\ recs[rid].closed /\ Cancelled(recs[rid])
                    /\ \A fd \in Fds : openFiles[fd] # rid

\* opens, reads, timers and closes with the request events recorded; the IO
\* succeeds and a timer that stays pending expires.  The delay passed to
\* fireAfter (preloadOpen, 0 included) is a lower bound on when the callback
\* runs: the calls the caller makes in the tick in which onOpen returns
\* come before it
InitZero == InitWith([opens |-> MaxOpens, cleans |-> 0, locates |-> 0,
                      fails |-> 0],
                     {50}, {"request"}, {{}})
SpecZero == /\ InitZero /\ [][Next]_vars
            /\ \A rid \in Rids : WF_vars(Timer(rid))

Requested(rid, reason) ==
  \E k \in 1..Len(events) : events[k] = Ev("request", recs[rid].path, reason)
Started(it) == it.kind = "preload" /\ it.pc \notin {"none", "waiting"}

Quiescent == ~lock.held /\ partial = {}
\* cacheFile(p) of work item i returns true in this step
CacheFileSucceeds(i) ==
  /\ items[i].kind = "preload" /\ items[i].pc = "utimes"
  /\ items'[i].pc \notin {"utimes", "failed"}

\* C31: when cacheFile(p) succeeds the cache holds a whole copy of p whose
\* atime and mtime are those of the source file, and whenever the executor
\* is idle every file of the cache is a whole copy of a source file of the
\* same path, with the source's mtime.
C31_CacheMirrorsSource ==
  /\ [][\A i \in ItemIds :
          CacheFileSucceeds(i) =>
            LET p == Head(items[i].sibs)
            IN  /\ p \in cacheFiles' /\ p \in stamped' /\ p \notin partial'
                /\ p \in sourceFiles'
                /\ (p \in atimeOld') = (p \in SourceAtimeOld)]_vars
  /\ [](Quiescent =>
          \A f \in cacheFiles : f \in sourceFiles /\ f \in stamped)

\* -------------------------------------------------------------------- C32
\* an open, its preload and the adapter's locates over an empty cache, with
\* the window in which fs.copyFile has created the destination and is still
\* writing it; the IO succeeds
InitPartial == InitWith([opens |-> MaxOpens, cleans |-> 0,
                         locates |-> MaxLocates, fails |-> 0],
                        {50}, {"hit", "cache"}, {{}})
NextPartial ==
  \/ NextCore
  \/ NextVfs
  \/ \E i \in ItemIds : CopyOpen(i)
SpecPartial == InitPartial /\ [][NextPartial]_vars

\* C32: a locate that returns cached = true (and so an open that emits hit)
\* names a path whose copy into the cache has completed.
C32_NoPartialHit ==
  ret.cached => (ret.path \in cacheFiles /\ ret.path \notin partial)

\* ============================================================ lib/worker.js
\* the variables of the Cache, which the modules of lib/ do not touch
cacheVars == <<cacheFiles, cacheDirs, atimeOld, mruFiles, openFiles, recs,
               fdState, lock, items, loc, events, ret, nextItem, nextRid,
               preloadRead, observed, siblingsCall, sourceFiles, partial,
               stamped, budget>>
InitLib ==
  /\ InitBase
  /\ cacheFiles = {} /\ cacheDirs = 0 /\ atimeOld = {} /\ stamped = {}
  /\ preloadRead = 50 /\ observed = {} /\ siblingsCall = NoCall
  /\ budget = [opens |-> 0, cleans |-> 0, locates |-> 0, fails |-> 0]

\* _start(), lines 89-118: clear the idle timeout; if nothing is running,
\* shift the next item and call its function (after the undoze delay when
\* it was pushed to a sleeping worker), or arm the idle timeout
WorkerStart(w) ==
  LET w1 == [w EXCEPT !.idleTimer = FALSE]
  IN  IF w1.working THEN w1
      ELSE IF w1.queue # <<>>
      THEN LET i == Head(w1.queue)
           IN  [w1 EXCEPT !.queue = Tail(@), !.working = TRUE, !.current = i,
                          !.st[i] = IF w1.st[i] = "queuedDelayed"
                                    THEN "delayed" ELSE "running"]
      ELSE IF w1.idleFn THEN [w1 EXCEPT !.idleTimer = TRUE]
      ELSE w1

\* push(fn), lines 78-87
pushItem(w) ==
  WorkerStart([w EXCEPT !.st[w.next] = IF w.working THEN "queued"
                                       ELSE "queuedDelayed",
                        !.queue = Append(@, w.next),
                        !.next = @ + 1])
push ==
  /\ worker.next \in WorkIds
  /\ worker' = pushItem(worker)
  /\ UNCHANGED <<cacheVars, copyJob, removeJob>>

\* delayed(), lines 51-56: the undoze delay of the running item is over
Undoze(i) ==
  /\ worker.st[i] = "delayed"
  /\ worker' = [worker EXCEPT !.st[i] = "running"]
  /\ UNCHANGED <<cacheVars, copyJob, removeJob>>

\* lines 106-111: the promise of the running item resolves
ItemDone(i) ==
  /\ worker.st[i] = "running"
  /\ worker' = WorkerStart([worker EXCEPT !.st[i] = "done", !.working = FALSE])
  /\ UNCHANGED <<cacheVars, copyJob, removeJob>>

\* onIdle(delay, fn), lines 120-125
onIdle ==
  /\ ~worker.idleFn /\ worker.stopped = "none"
  /\ worker' = WorkerStart([worker EXCEPT !.idleFn = TRUE])
  /\ UNCHANGED <<cacheVars, copyJob, removeJob>>

\* lines 113-116: the idle timeout expires and pushes the idle function
IdleTimeout ==
  /\ worker.idleTimer
  /\ worker.next \in WorkIds
  /\ worker' = pushItem([worker EXCEPT !.idleTimer = FALSE])
  /\ UNCHANGED <<cacheVars, copyJob, removeJob>>

\* stop(), lines 127-136: empty the queue, forget the idle function, and
\* return the promise of the current item with a timeout.  dropped records
\* the items the queue held
stopKeepQueue(w) ==
  LET w1 == WorkerStart([w EXCEPT !.idleFn = FALSE])
  IN  [w1 EXCEPT !.stopped = "pending", !.stopOn = w1.current,
                 !.dropped = {w.queue[k] : k \in 1..Len(w.queue)}]
stopWorker(w) ==
  LET w1 == WorkerStart([w EXCEPT !.queue = <<>>, !.idleFn = FALSE])
  IN  [w1 EXCEPT !.stopped = "pending", !.stopOn = w1.current,
                 !.dropped = {w.queue[k] : k \in 1..Len(w.queue)}]
stop ==
  /\ worker.stopped = "none"
  /\ worker' = stopWorker(worker)
  /\ UNCHANGED <<cacheVars, copyJob, removeJob>>

\* the promise stop() returned settles: it resolves once the promise of the
\* item that was current has resolved, and rejects when stopTimeout is over
\* before that
CurrentResolved(w) ==
  IF w.stopOn = 0 THEN TRUE ELSE w.st[w.stopOn] = "done"
StopSettles ==
  /\ worker.stopped = "pending"
  /\ worker' = [worker EXCEPT !.stopped = IF CurrentResolved(worker)
                                          THEN "resolved" ELSE "rejected"]
  /\ UNCHANGED <<cacheVars, copyJob, removeJob>>

InitWorker == InitLib /\ LibIdle
NextWorker ==
  \/ push
  \/ \E i \in WorkIds : Undoze(i)
  \/ \E i \in WorkIds : ItemDone(i)
  \/ onIdle
  \/ IdleTimeout
  \/ stop
  \/ StopSettles
SpecWorker == InitWorker /\ [][NextWorker]_vars

InFlightItems == {i \in WorkIds : worker.st[i] \in {"delayed", "running"}}

AtLeastTwo(n) == IF n < 2 THEN 2 ELSE n
PairFds     == 1..AtLeastTwo(MaxFd)
PairRids    == 1..AtLeastTwo(MaxOpens)
PairItems   == 1..(2 * AtLeastTwo(MaxOpens))
\* the byte counts of one read: none, and more than preloadRead percent of a file
PairReads   == {0, MaxRead}
PairCallers == {<<"fd", f>> : f \in PairFds} \cup {<<"item", i>> : i \in PairItems}
InitPair ==
  /\ mruFiles = <<>>
  /\ openFiles = [f \in PairFds |-> 0]
  /\ recs = [r \in PairRids |-> NoRec]
  /\ fdState = [f \in PairFds |-> [st |-> "closed", path |-> NoPath]]
  /\ lock = [held |-> FALSE, awaiters |-> <<>>]
  /\ items = [i \in PairItems |-> NoItem]
  /\ loc = [c \in PairCallers \cup {Vfs} |-> NoFrame]
  /\ events = <<>> /\ ret = NoInfo
  /\ nextItem = 1 /\ nextRid = 1
  /\ sourceFiles = Names /\ partial = {}
  /\ cacheFiles = {} /\ cacheDirs = 0 /\ atimeOld = {} /\ stamped = {}
  /\ preloadRead = 50 /\ observed = AllEvents /\ siblingsCall = NoCall
  /\ budget = [opens |-> AtLeastTwo(MaxOpens), cleans |-> 0, locates |-> 0,
               fails |-> 0]
  /\ LibIdle
NextPair ==
  \/ \E c \in PairCallers : LstatCache(c)
  \/ \E fd \in PairFds, p \in Names : onOpen(fd, p)
  \/ \E fd \in PairFds : onOpenDone(fd)
  \/ \E fd \in PairFds : onClose(fd)
  \/ \E fd \in PairFds, b \in PairReads : onRead(fd, b)
  \/ \E rid \in PairRids : Timer(rid)
  \/ \E i \in PairItems : ItemLocateDone(i)
  \/ \E i \in PairItems : Readdir(i)
  \/ \E i \in PairItems : Mkdirs(i)
  \/ \E i \in PairItems : CopyFile(i)
  \/ \E i \in PairItems : Utimes(i)
SpecPair == InitPair /\ [][NextPair]_vars

\* what a call for fd may change: the entry and the record of fd
OthersKept(fd) ==
  /\ \A g \in PairFds \ {fd} : openFiles'[g] = openFiles[g]
  /\ \A r \in PairRids \ {openFiles[fd]} : recs'[r] = recs[r]
\* a call for an fd that has no entry changes nothing of the Cache
NothingDone ==
  /\ openFiles' = openFiles /\ recs' = recs /\ events' = events
  /\ items' = items /\ lock' = lock /\ mruFiles' = mruFiles

\* C34: onRead(fd) and onClose(fd) leave the entry, the record, the byte
\* count and the trigger of every other fd as they are, also when they are
\* open on the same path; for an fd without an entry they change nothing
\* and emit nothing.
C34_FdsIndependent ==
  [][\A fd \in PairFds :
       ((\E b \in PairReads : onRead(fd, b)) \/ onClose(fd)) =>
         /\ OthersKept(fd)
         /\ openFiles[fd] = 0 => NothingDone]_vars
\* two fds are open on the same path; one has read bytes and its trigger has
\* fired, the other has read nothing and its trigger is armed
C34_Witness ==
  \E f, g \in PairFds :
    /\ f # g /\ openFiles[f] # 0 /\ openFiles[g] # 0
    /\ recs[openFiles[f]].path = recs[openFiles[g]].path
    /\ recs[openFiles[f]].read > 0 /\ recs[openFiles[f]].value = "read"
    /\ recs[openFiles[g]].read = 0 /\ Armed(recs[openFiles[g]])
    /\ recs[openFiles[g]].timer

\* -------------------------------------------------------------------- C35
\* C35: a read of a record whose size is not known yet does not fire the
\* trigger, whatever its byte count; its bytes are added to rec.read all the
\* same, and a later read made when the size is known fires the armed
\* trigger as soon as the sum of all the bytes read is over the threshold.
C35_ReadBeforeSize ==
  [][\A fd \in PairFds, b \in PairReads :
       (onRead(fd, b) /\ openFiles[fd] # 0) =>
         LET r == recs[openFiles[fd]]
             q == recs'[openFiles[fd]]
         IN  /\ q.read = r.read + b
             /\ r.size < 0 => (q.resolved = r.resolved /\ q.value = r.value)
             /\ (r.size >= 0 /\ Armed(r)
                   /\ (r.read + b) * 100 > preloadRead * r.size) =>
                  (Fired(q) /\ q.value = "read")]_vars
\* a file was opened while a preload held the lock; more than half of it has
\* been read, its size is still unknown and its trigger is armed
C35_Witness ==
  \E fd \in PairFds :
    /\ openFiles[fd] # 0
    /\ LET r == recs[openFiles[fd]]
       IN  /\ r.size < 0 /\ Armed(r)
           /\ r.read * 100 > preloadRead * FileSize

\* -------------------------------------------------------------------- C36
\* opens, timers, closes and preloads with failing IO, over a cache that
\* may hold copies made earlier; the cache and error events are recorded
InitAbandon == InitWith([opens |-> MaxOpens, cleans |-> 0, locates |-> 0,
                         fails |-> MaxFails],
                        {50}, {"cache", "error"}, SUBSET FlacNames)
SpecAbandon == InitAbandon /\ [][NextCore]_vars

CountEv(name, evs) == Cardinality({k \in 1..Len(evs) : evs[k][1] = name})
Copying(it) == it.kind = "preload" /\ it.pc \in {"copy", "utimes"}
\* an IO call of cacheFile(sib) of preload i rejects in this step
SiblingThrows(i) ==
  /\ items[i].kind = "preload"
  /\ items[i].pc \in {"locate", "mkdir", "copy", "utimes"}
  /\ items'[i] # items[i]
  /\ budget'.fails < budget.fails

\* C36: when cacheFile of a sibling throws, the preload is over.  In that
\* step one error event is emitted and none of kind cache, the event log so
\* far and the files of the cache are kept, and the siblings that were left
\* are dropped; the failed work item never moves again; and a file is
\* copied or a cache event emitted only by a preload that is running, so
\* nothing is copied for the dropped siblings.
C36_FailedSiblingAbandons ==
  [][/\ \A i \in ItemIds :
          /\ SiblingThrows(i) =>
               /\ items'[i].pc = "failed"
               /\ CountEv("error", events') = CountEv("error", events) + 1
               /\ CountEv("cache", events') = CountEv("cache", events)
               /\ Len(events') > Len(events)
               /\ SubSeq(events', 1, Len(events)) = events
               /\ cacheFiles \subseteq cacheFiles'
               /\ items'[i].sibs = <<>>
          /\ items[i].pc = "failed" => items'[i] = items[i]
     /\ (cacheFiles' # cacheFiles
           \/ CountEv("cache", events') > CountEv("cache", events)) =>
          \E j \in ItemIds : Copying(items[j]) /\ items'[j].pc # "failed"]_vars
\* the first sibling was cached and announced, the copy of the second one
\* failed: the preload is over with one error, the first file is cached
C36_Witness ==
  /\ \E i \in ItemIds : items[i].kind = "preload" /\ items[i].pc = "failed"
  /\ cacheFiles = {"file1.flac"} /\ stamped = {"file1.flac"}
  /\ CountEv("cache", events) = 1 /\ CountEv("error", events) = 1
  /\ \A i \in ItemIds : ~InFlight(items[i])

\* ------------------------------------------------------------ uncache events
\* the events this step appends to the log
NewEvents == SubSeq(events', Len(events) + 1, Len(events'))

\* clean work item i has unlinked the cache file of its path and is removing
\* the directories the file was in (uncacheFile, line 270)
Unlinked(i) == items[i].kind = "clean" /\ items[i].pc = "rmdirs"

\* C37: an uncache event is emitted one at a time, by a clean that has
\* unlinked the cache file of that path, for a file that is no longer in the
\* cache; and a clean that has unlinked a cache file emits uncache for it
\* before it does anything else.
C37_EveryEvictionEmits ==
  [][/\ \A k \in 1..Len(NewEvents) :
          NewEvents[k][1] = "uncache" =>
            /\ CountEv("uncache", NewEvents) = 1
            /\ NewEvents[k][2] \notin cacheFiles'
            /\ \E i \in ItemIds : Unlinked(i) /\ items[i].path = NewEvents[k][2]
     /\ \A i \in ItemIds :
          (Unlinked(i) /\ items'[i] # items[i]) =>
            /\ Len(events') >= Len(events)
            /\ NewEvents = <<Ev("uncache", items[i].path, "-")>>]_vars

\* ------------------------------------------------- the age of a fresh copy
\* the log holds cache(f) and, later, uncache(f): a clean has evicted the
\* copy that a preload of this run made
CachedThenEvicted(f) ==
  \E j, k \in 1..Len(events) :
     /\ j < k
     /\ events[j] = Ev("cache", f, "-")
     /\ events[k] = Ev("uncache", f, "-")

\* opens and cleans over an empty cache; nothing is closed, the IO succeeds
InitFresh == InitWith([opens |-> MaxOpens, cleans |-> MaxCleans,
                       locates |-> 0, fails |-> 0],
                      {50}, {"cache", "uncache"}, {{}})
SpecFresh == InitFresh /\ [][NextDirs]_vars

\* C38 as stated: no time passes between the copy and the clean, and the
\* copy a preload has made is not evicted.
C38_FreshCopyKept ==
  \A f \in Names : ~CachedThenEvicted(f)

\* C38: the age clean uses is the access time that cacheFile has copied from
\* the source file: a copy a preload has made is evicted by a clean that
\* follows at once only if its source file was last accessed long ago, and
\* stays in the cache otherwise.
C38_AgeIsSourceAge ==
  /\ \A f \in Names : CachedThenEvicted(f) => f \in SourceAtimeOld
  /\ \A f \in cacheFiles \cap stamped :
       (\E k \in 1..Len(events) : events[k] = Ev("cache", f, "-")) =>
          ((f \in atimeOld) = (f \in SourceAtimeOld))
\* a clean has evicted the fresh copy of the file whose source is old and has
\* kept the fresh copy of a file whose source was accessed recently
C38_Witness ==
  /\ CachedThenEvicted("file3.flac")
  /\ "file1.flac" \in cacheFiles \ atimeOld
  /\ \E k \in 1..Len(events) : events[k] = Ev("cache", "file1.flac", "-")
  /\ \E i \in ItemIds : items[i].kind = "clean" /\ items[i].pc = "done"

\* ------------------------------------------------------- lib/copyfile.js
\* copyFile(src, dst) of lib/copyfile.js: the copy goes to a temp file next to
\* dst, gets the times of src and is renamed over dst.  copyJob holds the
\* call in progress and the files it works on:
\*   pc       the await the call is suspended at
\*   src      the stats and content of the source file
\*   dstFile  the file at dst, tmpFile the file at the temp name of this call
\*   before   the file at dst when the call was made
\*   strays   temp files of earlier calls that are still there
\*   dir      the directory of dst exists
\*   calls, fails   how many calls and failing IO calls are left
NoFile == [exists |-> FALSE, data |-> "-", size |-> 0, mtimeMs |-> 0]
File(d, s, m) == [exists |-> TRUE, data |-> d, size |-> s, mtimeMs |-> m]
\* Date.now() at the moment of the copy
NowMs == 9000
\* the source files of the tests: /src/foo holds 'bar'
SrcFiles == {File("bar", 3, 1000), File("quux", 4, 1000)}
\* what dst may hold before the first call: nothing, a copy that rsync would
\* skip, a file of the same size with another mtime, a file of another size
DstFiles == {NoFile, File("bar", 3, 1500), File("old", 3, 5000),
             File("other", 5, 1000)}

\* statsAreSame(), lines 73-75
Abs(n) == IF n < 0 THEN -n ELSE n
statsAreSame(s1, s2) ==
  s1.size = s2.size /\ Abs(s1.mtimeMs - s2.mtimeMs) < 1000

InitCopyFile ==
  /\ InitLib
  /\ worker = NoWorker /\ removeJob = NoRemoveJob
  /\ \E d \in DstFiles :
       copyJob = [pc |-> "none", src |-> NoFile, dstFile |-> d,
                  tmpFile |-> NoFile, before |-> d, strays |-> 0,
                  dir |-> d.exists, calls |-> MaxCopy, fails |-> MaxFails]

CopyMayFail == IF copyJob.fails > 0 THEN {TRUE, FALSE} ELSE {TRUE}
\* the call rejects with the IO error
CopyThrows(j) == [j EXCEPT !.pc = "failed", !.fails = @ - 1]
CopyFrame == UNCHANGED <<cacheVars, worker, removeJob>>

\* copyFile(src, dst), lines 26-36: a call is made when none is running; its
\* temp name is a new random one (makeTempName, lines 77-79)
copyFile(s) ==
  /\ copyJob.pc \in {"none", "done", "failed"}
  /\ copyJob.calls > 0
  /\ copyJob' = [copyJob EXCEPT
                   !.pc = "compare", !.src = s, !.before = copyJob.dstFile,
                   !.strays = IF copyJob.tmpFile.exists THEN @ + 1 ELSE @,
                   !.tmpFile = NoFile, !.calls = @ - 1]
  /\ CopyFrame

\* compareFiles(), lines 53-71, and lines 38-41: stat of src and of dst; the
\* call returns when size and mtime agree, ENOENT of dst means a copy is due
compareFiles ==
  /\ copyJob.pc = "compare"
  /\ \E ok \in CopyMayFail :
       copyJob' = IF ~ok THEN CopyThrows(copyJob)
                  ELSE IF /\ copyJob.dstFile.exists
                          /\ statsAreSame(copyJob.src, copyJob.dstFile)
                  THEN [copyJob EXCEPT !.pc = "done"]
                  ELSE [copyJob EXCEPT !.pc = "mkdirp"]
  /\ CopyFrame

\* ensureContainingDirExists(), lines 81-85
ensureContainingDirExists ==
  /\ copyJob.pc = "mkdirp"
  /\ \E ok \in CopyMayFail :
       copyJob' = IF ok THEN [copyJob EXCEPT !.pc = "copy", !.dir = TRUE]
                  ELSE CopyThrows(copyJob)
  /\ CopyFrame

\* copyToTempFile(), lines 87-96: fs.copyFile returns; when it fails the temp
\* file may exist with part of the data, and maybeUnlink is called
copyToTempFile ==
  /\ copyJob.pc = "copy"
  /\ \E ok \in CopyMayFail :
       IF ok
       THEN copyJob' = [copyJob EXCEPT
                          !.pc = "stats",
                          !.tmpFile = File(copyJob.src.data, copyJob.src.size,
                                           NowMs)]
       ELSE \E t \in {NoFile, File("part", 1, NowMs)} :
              copyJob' = [copyJob EXCEPT !.pc = "unlinkCopy", !.tmpFile = t,
                                         !.fails = @ - 1]
  /\ CopyFrame

\* maybeUnlink(), lines 119-133: ENOENT is ignored, another error is thrown
\* in place of the first one
maybeUnlink(j, f, ok) ==
  IF ~j[f].exists THEN j
  ELSE IF ok THEN [j EXCEPT ![f] = NoFile]
  ELSE CopyThrows(j)

\* copyToTempFile(), lines 93-94: the unlink of the temp file returns and the
\* copy error is thrown
copyFailedUnlink ==
  /\ copyJob.pc = "unlinkCopy"
  /\ \E ok \in CopyMayFail :
       copyJob' = [maybeUnlink(copyJob, "tmpFile", ok) EXCEPT !.pc = "failed"]
  /\ CopyFrame

\* copyStats(), lines 98-105: stat of src, utimes of the temp file
copyStats ==
  /\ copyJob.pc = "stats"
  /\ \E ok \in CopyMayFail :
       copyJob' = IF ok
                  THEN [copyJob EXCEPT !.pc = "rename",
                                       !.tmpFile.mtimeMs = copyJob.src.mtimeMs]
                  ELSE CopyThrows(copyJob)
  /\ CopyFrame

\* renameInPlace(), lines 107-111: rename of the temp file to dst
renameInPlace ==
  /\ copyJob.pc = "rename"
  /\ \E ok \in CopyMayFail :
       copyJob' = IF ok
                  THEN [copyJob EXCEPT !.pc = "done",
                                       !.dstFile = copyJob.tmpFile,
                                       !.tmpFile = NoFile]
                  ELSE [copyJob EXCEPT !.pc = "unlinkTemp", !.fails = @ - 1]
  /\ CopyFrame

\* renameInPlace(), line 113: maybeUnlink(src), src being the temp file
renameFailedUnlinkTemp ==
  /\ copyJob.pc = "unlinkTemp"
  /\ \E ok \in CopyMayFail :
       LET j == maybeUnlink(copyJob, "tmpFile", ok)
       IN  copyJob' = IF j.pc = "failed" THEN j
                      ELSE [j EXCEPT !.pc = "unlinkDst"]
  /\ CopyFrame

\* renameInPlace(), lines 114-115: maybeUnlink(dst), then the rename error is
\* thrown
renameFailedUnlinkDst ==
  /\ copyJob.pc = "unlinkDst"
  /\ \E ok \in CopyMayFail :
       copyJob' = [maybeUnlink(copyJob, "dstFile", ok) EXCEPT !.pc = "failed"]
  /\ CopyFrame

NextCopyFile ==
  \/ \E s \in SrcFiles : copyFile(s)
  \/ compareFiles
  \/ ensureContainingDirExists
  \/ copyToTempFile
  \/ copyFailedUnlink
  \/ copyStats
  \/ renameInPlace
  \/ renameFailedUnlinkTemp
  \/ renameFailedUnlinkDst
SpecCopyFile == InitCopyFile /\ [][NextCopyFile]_vars

\* C39: when a call of copyFile has failed, no temp file of it is left and
\* the file at dst is the one that was there when the call was made.
C39_FailedCopyRestores ==
  copyJob.pc = "failed" =>
    /\ ~copyJob.tmpFile.exists
    /\ copyJob.dstFile = copyJob.before

\* ------------------------------------------------------ lib/removefile.js
\* removeFile(path, {top}) of lib/removefile.js: unlink the file, then rmdir
\* its parents while they are empty and below top.  Paths are strings, kept
\* here as sequences of characters, because maybeRmdir compares them with
\* String.startsWith and length.  removeJob holds the call in progress and
\* the tree it works on:
\*   pc       the await the call is suspended at
\*   path, top, dir   the arguments and the directory maybeRmdir is called with
\*   files, dirs      the files and directories that exist
\*   calls, fails     how many calls and failing IO calls are left
Root       == <<"/">>
Foo        == <<"/", "f", "o", "o">>
FooBar     == Foo \o <<"/", "b", "a", "r">>
FooBarBaz  == FooBar \o <<"/", "b", "a", "z">>
FooBarBom  == FooBar \o <<"/", "b", "o", "m">>
Foo2       == Foo \o <<"2">>
Foo2Bar    == Foo2 \o <<"/", "b", "a", "r">>
Foo2BarBaz == Foo2Bar \o <<"/", "b", "a", "z">>
\* the files of the tests, and one in a directory beside /foo
TreeFiles == {FooBarBaz, FooBarBom, Foo2BarBaz}
Tops == {Root, Foo, FooBar}

\* path.dirname
LastSlash(p) ==
  CHOOSE k \in 1..Len(p) : p[k] = "/" /\ \A j \in (k + 1)..Len(p) : p[j] # "/"
dirname(p) == IF LastSlash(p) = 1 THEN Root ELSE SubSeq(p, 1, LastSlash(p) - 1)
\* String.prototype.startsWith
startsWith(p, q) == Len(q) <= Len(p) /\ SubSeq(p, 1, Len(q)) = q

RECURSIVE Ancestors(_)
\* the directories above p, the root left out
Ancestors(p) ==
  IF dirname(p) = Root THEN {} ELSE {dirname(p)} \cup Ancestors(dirname(p))
\* d is a directory somewhere inside top
Below(d, t) ==
  d # t /\ startsWith(d, IF t = Root THEN Root ELSE t \o <<"/">>)
\* rmdir(d) would fail with ENOTEMPTY
NotEmpty(j, d) == \E e \in j.files \cup j.dirs : dirname(e) = d

InitRemoveFile ==
  /\ InitLib
  /\ worker = NoWorker /\ copyJob = NoCopyJob
  /\ \E fs \in SUBSET TreeFiles :
       removeJob = [pc |-> "none", path |-> Root, top |-> Root, dir |-> Root,
                    files |-> fs,
                    dirs |-> UNION {Ancestors(f) : f \in fs},
                    calls |-> MaxRemove, fails |-> MaxFails]

RemoveMayFail == IF removeJob.fails > 0 THEN {TRUE, FALSE} ELSE {TRUE}
RemoveThrows(j) == [j EXCEPT !.pc = "failed", !.fails = @ - 1]
RemoveFrame == UNCHANGED <<cacheVars, worker, copyJob>>

\* removeFile(path, opts), lines 22-31: a call is made when none is running
removeFile(p, t) ==
  /\ removeJob.pc \in {"none", "done", "failed"}
  /\ removeJob.calls > 0
  /\ removeJob' = [removeJob EXCEPT !.pc = "unlink", !.path = p, !.top = t,
                                    !.dir = dirname(p), !.calls = @ - 1]
  /\ RemoveFrame

\* removeFile(), lines 35-37: unlink(path) returns; ENOENT when the file is
\* not there
unlinkPath ==
  /\ removeJob.pc = "unlink"
  /\ IF removeJob.path \notin removeJob.files
     THEN removeJob' = [removeJob EXCEPT !.pc = "failed"]
     ELSE \E ok \in RemoveMayFail :
            removeJob' = IF ok
                         THEN [removeJob EXCEPT !.pc = "rmdir",
                                                !.files = @ \ {removeJob.path}]
                         ELSE RemoveThrows(removeJob)
  /\ RemoveFrame

\* the test of maybeRmdir, line 42
belowTop(path, top) == startsWith(path, top) /\ Len(path) > Len(top)

\* maybeRmdir(), lines 40-57: quit unless the path is below top; rmdir; on
\* ENOTEMPTY return, on another error throw, otherwise go on with the parent
maybeRmdir ==
  /\ removeJob.pc = "rmdir"
  /\ IF ~belowTop(removeJob.dir, removeJob.top)
     THEN removeJob' = [removeJob EXCEPT !.pc = "done"]
     ELSE IF NotEmpty(removeJob, removeJob.dir)
     THEN removeJob' = [removeJob EXCEPT !.pc = "done"]
     ELSE \E ok \in RemoveMayFail :
            removeJob' = IF ok
                         THEN [removeJob EXCEPT !.dirs = @ \ {removeJob.dir},
                                                !.dir = dirname(removeJob.dir)]
                         ELSE RemoveThrows(removeJob)
  /\ RemoveFrame

NextRemoveFile ==
  \/ \E p \in TreeFiles, t \in Tops : removeFile(p, t)
  \/ unlinkPath
  \/ maybeRmdir
SpecRemoveFile == InitRemoveFile /\ [][NextRemoveFile]_vars

=============================================================================
